---- MODULE Spec2Model ----
(***************************************************************************)
(* Model of automark's peer synchronization session                         *)
(* (src/src/commands/sync.rs, handle_sync_command) and of the repository   *)
(* primitives it drives (src/src/traits/repository.rs); of the Automerge   *)
(* bookmark repository (src/src/adapters/automerge_repo.rs): its document, *)
(* its snapshot file and the operations of BookmarkRepository; and of two  *)
(* replicas of the bookmarks map exchanging recorded changes.              *)
(*                                                                         *)
(* Option<T> values are modelled as sequences of length 0 (None) or 1      *)
(* (Some(v)).  The output format only selects what is printed and is not   *)
(* part of the state.                                                      *)
(***************************************************************************)
EXTENDS Integers, Sequences, FiniteSets, TLC

\* ------------------------------------------------------------------ bounds
\* number of inbound frames the peer delivers before it goes quiet
MaxFrames == 2
\* largest timeout (in clock ticks) a session is started with
MaxTimeout == 2

\* ------------------------------------------------------------- value sets
NoId == "-"
\* the ephemeral peer id of this session (Uuid::new_v4)
LocalPeerId == "local"
\* sender ids a remote frame can carry
PeerIds == {"srv", "peer2"}
\* the document id used when --document-id is not given
DefaultDocumentId == "bookmarks"
DocIds == {"bookmarks", "doc2"}
\* bookmark ids a document can hold
BookmarkIds == {"b1"}

\* A sync blob (Vec<u8>): its length class (0 = empty), whether the document
\* engine can decode it, and the bookmark ids whose changes it carries.
EmptyBlob == [len |-> 0, valid |-> FALSE, ids |-> {}]
BadBlob == [len |-> 1, valid |-> FALSE, ids |-> {}]
ChangeBlob(s) == [len |-> 1, valid |-> TRUE, ids |-> s]
InboundBlobs == {EmptyBlob, BadBlob} \cup {ChangeBlob(s) : s \in (SUBSET BookmarkIds) \ {{}}}

IsEmpty(blob) == blob.len = 0

\* ProtocolMessage, one record shape for all variants; fields a variant does
\* not have hold NoId / EmptyBlob.
Msg(type, sender_id, target_id, document_id, data) ==
  [type |-> type, sender_id |-> sender_id, target_id |-> target_id,
   document_id |-> document_id, data |-> data]

NoMsg == Msg("none", NoId, NoId, NoId, EmptyBlob)
\* marks, in the history, a binary frame of length 0
NoEnvelope == Msg("no-envelope", NoId, NoId, NoId, EmptyBlob)
Join(sender_id) == Msg("join", sender_id, NoId, NoId, EmptyBlob)
Peer(sender_id) == Msg("peer", sender_id, NoId, NoId, EmptyBlob)
Sync(document_id, sender_id, target_id, data) == Msg("sync", sender_id, target_id, document_id, data)
Request(document_id, sender_id, target_id) == Msg("request", sender_id, target_id, document_id, EmptyBlob)
\* a well-formed CBOR item that is none of the four variants
UnknownMsg == Msg("unknown", NoId, NoId, NoId, EmptyBlob)

ProtocolMessage == {"join", "peer", "sync", "request"}

\* cbor4ii::serde::to_vec(vec![0], &msg): the envelope byte 0, then the item
ToVec(msg) == <<0, msg>>

\* cbor4ii::serde::from_slice::<ProtocolMessage>: exactly one item of a known
\* variant decodes, anything else is Err
FromSlice(bytes) ==
  IF Len(bytes) = 1 /\ bytes[1].type \in ProtocolMessage
  THEN [ok |-> TRUE, msg |-> bytes[1]]
  ELSE [ok |-> FALSE, msg |-> NoMsg]

\* &data[1..]: defined only when the frame has at least the envelope byte
SliceFrom1Panics(data) == Len(data) < 1
SliceFrom1(data) == Tail(data)

\* ---------------------------------------------------------------- state
VARIABLES
  args,             \* SyncArgs: document_id, dry_run, timeout
  config,           \* config.sync: enabled, timeout_secs
  store,            \* bookmark ids in the local document (find_all)
  pc,               \* position in handle_sync_command
  clock,            \* ticks since timeout_future was created
  remote_peer_id,   \* _remote_peer_id : Option<String>
  changes_received,
  changes_sent,
  events,           \* history: frames read, repository calls, sends, in order
  exit,             \* how the session left (which arm ended it)
  result,           \* what handle_sync_command returned
  response,         \* the SyncResponse reported : Option
  last_frame_at     \* history: the clock reading when the last frame was read

\* the repository instance (src/src/adapters/automerge_repo.rs) and its files
VARIABLES
  doc,              \* self.doc: the "bookmarks" map of the document, id -> node
  file,             \* what file_path holds on disk
  temp,             \* what file_path.with_extension("tmp") holds on disk
  rpc,              \* position of the instance: closed, idle, write, rename
  call,             \* the operation being executed
  last,             \* the operation that returned last, and what it returned
  note_seq,         \* notes made by Note::new so far
  faults,           \* storage failures and crashes so far
  gone              \* history: ids deleted with success and not created since

syncVars == <<args, config, store, pc, clock, remote_peer_id, changes_received,
              changes_sent, events, exit, result, response, last_frame_at>>

repoVars == <<doc, file, temp, rpc, call, last, note_seq, faults, gone>>

\* two replicas of the document, each with its own repository instance
VARIABLES
  replicas,         \* replica -> the changes its document holds
  op_seq,           \* changes made so far, on any replica
  deleted           \* history: <<replica, id>> of every delete that succeeded

replicaVars == <<replicas, op_seq, deleted>>

\* one run of the command line program
VARIABLES
  format,           \* OutputFormat::from(cli.output)
  command,          \* the subcommand of cli.command
  main_pc,          \* position of main: command, ran, auto_sync, syncing, exited
  auto_sync_result, \* what auto_sync_if_enabled returned
  warnings,         \* lines auto_sync_if_enabled wrote to stderr
  exit_code         \* the status the process ended with

mainVars == <<format, command, main_pc, auto_sync_result, warnings, exit_code>>

\* the terminal interface
VARIABLES
  app,              \* the TuiApp of run_tui
  tui_pc            \* position of run_app: off, keys, delete, add

tuiVars == <<app, tui_pc>>

vars == <<syncVars, repoVars, replicaVars, mainVars, tuiVars>>

\* struct TuiApp.  message holds the kind of the TuiMessage; message_time is
\* set and cleared together with it
TuiApp(mode, bookmarks, list_state, selected_index, search_query, filters, message, should_quit, input_buffer, cursor_position) ==
  [mode |-> mode, bookmarks |-> bookmarks, list_state |-> list_state,
   selected_index |-> selected_index, search_query |-> search_query,
   filters |-> filters, message |-> message, should_quit |-> should_quit,
   input_buffer |-> input_buffer, cursor_position |-> cursor_position]

\* the terminal interface is not running
TuiAtRest ==
  /\ app = TuiApp("List", <<>>, <<>>, <<>>, <<>>, <<>>, <<>>, FALSE, <<>>, 0)
  /\ tui_pc = "off"


\* no command line run: the library is called directly
MainAtRest ==
  /\ format = "Human"
  /\ command = "-"
  /\ main_pc = "-"
  /\ auto_sync_result = "-"
  /\ warnings = <<>>
  /\ exit_code = <<>>

Replicas == {"r1", "r2"}

\* both replicas hold the same empty document
ReplicasAtRest ==
  /\ replicas = [r \in Replicas |-> {}]
  /\ op_seq = 0
  /\ deleted = {}

\* no file at the path
NoFile == [kind |-> "absent", map |-> <<>>]

\* no operation
NoCall == [op |-> "-", id |-> "-", arg |-> <<>>, note |-> "-"]
NoReturn == [op |-> "-", id |-> "-", status |-> "-", out |-> <<>>, note |-> "-",
             tags |-> <<>>]

\* the sync session does not touch the repository files: no instance is open
RepoAtRest ==
  /\ doc = <<>>
  /\ file = NoFile
  /\ temp = NoFile
  /\ rpc = "closed"
  /\ call = NoCall
  /\ last = NoReturn
  /\ note_seq = 0
  /\ faults = 0
  /\ gone = {}

Ev(ev, key, msg, ok) == [ev |-> ev, key |-> key, msg |-> msg, ok |-> ok]

Running == [status |-> "running", kind |-> "-"]
Ok == [status |-> "Ok", kind |-> "-"]
Err(kind) == [status |-> "Err", kind |-> kind]
Panic == [status |-> "panic", kind |-> "-"]

\* let document_id = args.document_id.clone().unwrap_or_else(|| "bookmarks")
DocumentId == IF args.document_id = <<>> THEN DefaultDocumentId ELSE args.document_id[1]

\* let timeout_secs = args.timeout.unwrap_or(config.sync.timeout_secs)
TimeoutSecs == IF args.timeout = <<>> THEN config.timeout_secs ELSE args.timeout[1]

NumRecv == Cardinality({i \in 1..Len(events) : events[i].ev = "recv"})

Init ==
  /\ MainAtRest
  /\ TuiAtRest
  /\ args \in [document_id : {<<>>, <<"doc2">>},
               dry_run : BOOLEAN,
               timeout : {<<>>, <<0>>}]
  /\ config \in [enabled : BOOLEAN, timeout_secs : {MaxTimeout}]
  /\ store \in SUBSET BookmarkIds
  /\ pc = "start"
  /\ clock = 0
  /\ last_frame_at = 0
  /\ remote_peer_id = <<>>
  /\ changes_received = 0
  /\ changes_sent = 0
  /\ events = <<>>
  /\ exit = "-"
  /\ result = Running
  /\ response = <<>>
  /\ RepoAtRest
  /\ ReplicasAtRest

\* return Err(e) / the ? operator / a panic: the function ends without a response
Return(how, r) ==
  /\ pc' = "done"
  /\ exit' = how
  /\ result' = r
  /\ response' = <<>>

\* break, then lines 268-292: the response is built and Ok(()) returned
BreakAndReport(how, received, sent) ==
  /\ pc' = "done"
  /\ exit' = how
  /\ result' = Ok
  /\ response' = <<[document_id |-> DocumentId, changes_received |-> received,
                    changes_sent |-> sent, success |-> TRUE]>>

Continue == UNCHANGED <<pc, exit, result, response>>

\* if !config.sync.enabled { return Err(SyncError) }
Start ==
  /\ pc = "start"
  /\ IF ~config.enabled
     THEN Return("disabled", Err("SyncError"))
     ELSE /\ pc' = "connect"
          /\ UNCHANGED <<exit, result, response>>
  /\ UNCHANGED <<repoVars, replicaVars, args, config, store, clock, remote_peer_id, changes_received,
                 changes_sent, events, last_frame_at, mainVars, tuiVars>>

\* connect_async(server_url).await
Connect ==
  /\ pc = "connect"
  /\ \E connected \in BOOLEAN :
       IF connected
       THEN /\ pc' = "join"
            /\ UNCHANGED <<exit, result, response>>
       ELSE Return("connect_failed", Err("SyncError"))
  /\ UNCHANGED <<repoVars, replicaVars, args, config, store, clock, remote_peer_id, changes_received,
                 changes_sent, events, last_frame_at, mainVars, tuiVars>>

\* variant: a failed Join send is not noticed and the loop is entered
SendJoin_unchecked ==
  /\ pc = "join"
  /\ \E sent \in BOOLEAN :
       events' = Append(events, Ev("send", NoId, Join(LocalPeerId), sent))
  /\ pc' = "loop"
  /\ clock' = 0
  /\ UNCHANGED <<repoVars, replicaVars, args, config, store, remote_peer_id, changes_received, changes_sent,
                 exit, result, response, last_frame_at, mainVars, tuiVars>>

\* write.send(Message::Binary(join_data)).await, then the counters and the
\* timeout future are set up
SendJoin ==
  /\ pc = "join"
  /\ \E sent \in BOOLEAN :
       /\ events' = Append(events, Ev("send", NoId, Join(LocalPeerId), sent))
       /\ IF sent
          THEN /\ pc' = "loop"
               /\ UNCHANGED <<exit, result, response>>
          ELSE Return("join_failed", Err("SyncError"))
  /\ clock' = 0
  /\ UNCHANGED <<repoVars, replicaVars, args, config, store, remote_peer_id, changes_received, changes_sent, last_frame_at, mainVars, tuiVars>>

\* time passes while the loop waits in select!
Tick ==
  /\ pc = "loop"
  /\ clock < TimeoutSecs
  /\ clock' = clock + 1
  /\ UNCHANGED <<repoVars, replicaVars, args, config, store, pc, remote_peer_id, changes_received,
                 changes_sent, events, exit, result, response, last_frame_at, mainVars, tuiVars>>

\* variant: the timeout is reported as a failure
Timeout_asError ==
  /\ pc = "loop"
  /\ clock >= TimeoutSecs
  /\ Return("timeout", Err("SyncError"))
  /\ UNCHANGED <<repoVars, replicaVars, args, config, store, clock, remote_peer_id, changes_received,
                 changes_sent, events, last_frame_at, mainVars, tuiVars>>

\* variant: the timeout is only raced against the read while frames arrive
Timeout_whileFrames ==
  /\ pc = "loop"
  /\ clock >= TimeoutSecs
  /\ NumRecv < MaxFrames
  /\ BreakAndReport("timeout", changes_received, changes_sent)
  /\ UNCHANGED <<repoVars, replicaVars, args, config, store, clock, remote_peer_id, changes_received,
                 changes_sent, events, last_frame_at, mainVars, tuiVars>>

\* _ = &mut timeout_future => break
Timeout ==
  /\ pc = "loop"
  /\ clock >= TimeoutSecs
  /\ BreakAndReport("timeout", changes_received, changes_sent)
  /\ UNCHANGED <<repoVars, replicaVars, args, config, store, clock, remote_peer_id, changes_received,
                 changes_sent, events, last_frame_at, mainVars, tuiVars>>

\* --------------------------------------------------- repository primitives
\* generate_sync_message(peer_id) -> BookmarkResult<Vec<u8>>: an error, an
\* empty message (nothing to send), or a diff of the current document.  It
\* reads the document and does not change it.
GenerateSyncMessage(peer_id) ==
  { [ok |-> FALSE, data |-> EmptyBlob],
    [ok |-> TRUE, data |-> EmptyBlob],
    [ok |-> TRUE, data |-> ChangeBlob(store)] }

\* apply_sync_message(peer_id, message) -> BookmarkResult<bool>: merges the
\* changes of a decodable message into the document and tells whether
\* anything was incorporated; an undecodable message is an error.
ApplySyncMessage(peer_id, message) ==
  IF message.valid
  THEN [ok |-> TRUE, changed |-> ~(message.ids \subseteq store), store |-> store \cup message.ids]
  ELSE [ok |-> FALSE, changed |-> FALSE, store |-> store]

\* ------------------------------------------------------- session decisions
\* variant: every document id is taken for the session's
DocMatches_any(doc_id) == TRUE

\* if doc_id == document_id
DocMatches(doc_id) == doc_id = DocumentId

\* variant: the dry_run flag is not consulted
ShouldApply_always == TRUE

\* if !args.dry_run
ShouldApply == ~args.dry_run

\* variant: the diff is sent whether or not it is empty
ShouldSend_always(sync_msg) == TRUE

\* if !sync_msg.is_empty()
ShouldSend(sync_msg) == ~IsEmpty(sync_msg)

\* variant: the diff is generated for the local peer id
GenerateKey_local(sender_id) == LocalPeerId

\* repository.generate_sync_message(&sender_id)
GenerateKey(sender_id) == sender_id

\* repository.apply_sync_message(&peer_id, ..): the key is the local peer id
ApplyKey(sender_id) == LocalPeerId

\* variant: sender and target of the reply are swapped
SyncReply_swapped(doc_id, sender_id, sync_msg) == Sync(doc_id, sender_id, LocalPeerId, sync_msg)

\* ProtocolMessage::Sync { document_id, sender_id: peer_id, target_id: sender_id, data }
SyncReply(doc_id, sender_id, sync_msg) == Sync(doc_id, LocalPeerId, sender_id, sync_msg)

\* ------------------------------------------------------- inbound frames
\* what read.next() can yield: Some(Ok(Binary)), Some(Ok(Close)),
\* Some(Ok(Text/Ping/Pong)), Some(Err), None
Frame(kind, data) == [kind |-> kind, data |-> data]
PeerFrames == {Frame("binary", ToVec(Peer(s))) : s \in PeerIds}
SyncFrames == {Frame("binary", ToVec(Sync(d, s, LocalPeerId, b))) :
                 d \in DocIds, s \in PeerIds, b \in InboundBlobs}
RequestFrames == {Frame("binary", ToVec(Request(d, s, LocalPeerId))) :
                    d \in DocIds, s \in PeerIds}
\* binary frames that carry none of Peer, Sync, Request: the envelope alone,
\* an item of another shape, a Join
OtherBinaryFrames == {Frame("binary", <<0>>), Frame("binary", ToVec(UnknownMsg)),
                      Frame("binary", ToVec(Join("srv")))}
EmptyBinaryFrame == Frame("binary", <<>>)
CloseFrame == Frame("close", <<>>)
TextFrame == Frame("text", <<>>)
ErrorFrame == Frame("error", <<>>)
EndOfStream == Frame("eof", <<>>)

\* generate the diff for sender_id and, if it is not empty, send it as Sync
\* (lines 180-201 and 223-244); pre is the event of the frame being handled
RespondWithDiff(pre, sender_id, doc_id) ==
  \E out \in GenerateSyncMessage(GenerateKey(sender_id)) :
    LET gen == Ev("gen", GenerateKey(sender_id), Msg("diff", NoId, NoId, NoId, out.data), out.ok)
    IN IF ~out.ok
       THEN /\ events' = events \o <<pre, gen>>
            /\ Return("repo_error", Err("RepositoryError"))
            /\ UNCHANGED changes_sent
       ELSE IF ~ShouldSend(out.data)
       THEN /\ events' = events \o <<pre, gen>>
            /\ Continue
            /\ UNCHANGED changes_sent
       ELSE \E sent \in BOOLEAN :
              /\ events' = events \o <<pre, gen,
                              Ev("send", NoId, SyncReply(doc_id, sender_id, out.data), sent)>>
              /\ IF sent
                 THEN /\ changes_sent' = changes_sent + 1
                      /\ Continue
                 ELSE /\ Return("send_failed", Err("SyncError"))
                      /\ UNCHANGED changes_sent

\* Ok(ProtocolMessage::Peer { sender_id, .. }) =>
OnPeer(pre, m) ==
  /\ remote_peer_id' = <<m.sender_id>>
  /\ RespondWithDiff(pre, m.sender_id, DocumentId)
  /\ UNCHANGED <<store, changes_received>>

\* Ok(ProtocolMessage::Sync { document_id: doc_id, data: sync_data, .. }) =>
OnSync(pre, m) ==
  /\ IF DocMatches(m.document_id)
     THEN /\ changes_received' = changes_received + 1
          /\ IF ShouldApply
             THEN LET r == ApplySyncMessage(ApplyKey(m.sender_id), m.data)
                  IN /\ events' = events \o <<pre, Ev("apply", ApplyKey(m.sender_id), m, r.ok)>>
                     /\ store' = r.store
                     /\ IF r.ok THEN Continue
                                ELSE Return("repo_error", Err("RepositoryError"))
             ELSE /\ events' = Append(events, pre)
                  /\ Continue
                  /\ UNCHANGED store
     ELSE /\ events' = Append(events, pre)
          /\ Continue
          /\ UNCHANGED <<store, changes_received>>
  /\ UNCHANGED <<remote_peer_id, changes_sent>>

\* Ok(ProtocolMessage::Request { document_id: doc_id, sender_id, .. }) =>
OnRequest(pre, m) ==
  /\ IF DocMatches(m.document_id)
     THEN RespondWithDiff(pre, m.sender_id, m.document_id)
     ELSE /\ events' = Append(events, pre)
          /\ Continue
          /\ UNCHANGED changes_sent
  /\ UNCHANGED <<store, remote_peer_id, changes_received>>

\* _ => {} : the frame is dropped and the loop goes on
Ignore(pre) ==
  /\ events' = Append(events, pre)
  /\ Continue
  /\ UNCHANGED <<store, remote_peer_id, changes_received, changes_sent>>

\* &data[1..] on a frame without the envelope byte: the slice index is out
\* of range and the task panics
OnEmptyBinary(pre) ==
  /\ events' = Append(events, pre)
  /\ Return("panic", Panic)
  /\ UNCHANGED <<store, remote_peer_id, changes_received, changes_sent>>

\* Some(Ok(Message::Close(_))) => break
OnClose(pre) ==
  /\ events' = Append(events, pre)
  /\ BreakAndReport("close", changes_received, changes_sent)
  /\ UNCHANGED <<store, remote_peer_id, changes_received, changes_sent>>

\* variant: a transport error only leaves the loop
OnError_asBreak(pre) ==
  /\ events' = Append(events, pre)
  /\ BreakAndReport("transport_error", changes_received, changes_sent)
  /\ UNCHANGED <<store, remote_peer_id, changes_received, changes_sent>>

\* Some(Err(e)) => return Err(SyncError("WebSocket error"))
OnError(pre) ==
  /\ events' = Append(events, pre)
  /\ Return("transport_error", Err("SyncError"))
  /\ UNCHANGED <<store, remote_peer_id, changes_received, changes_sent>>

\* None => break
OnEndOfStream(pre) ==
  /\ events' = Append(events, pre)
  /\ BreakAndReport("eof", changes_received, changes_sent)
  /\ UNCHANGED <<store, remote_peer_id, changes_received, changes_sent>>

\* msg = read.next() => match msg { .. } : one frame, handled to the end
HandleFrame(frame) ==
  LET recv(m, ok) == Ev("recv", frame.kind, m, ok) IN
  IF frame.kind = "binary"
  THEN IF SliceFrom1Panics(frame.data)
       THEN OnEmptyBinary(recv(NoEnvelope, FALSE))
       ELSE LET d == FromSlice(SliceFrom1(frame.data)) IN
            IF d.ok /\ d.msg.type = "peer" THEN OnPeer(recv(d.msg, TRUE), d.msg)
            ELSE IF d.ok /\ d.msg.type = "sync" THEN OnSync(recv(d.msg, TRUE), d.msg)
            ELSE IF d.ok /\ d.msg.type = "request" THEN OnRequest(recv(d.msg, TRUE), d.msg)
            ELSE Ignore(recv(d.msg, d.ok))
  ELSE IF frame.kind = "close" THEN OnClose(recv(NoMsg, TRUE))
  ELSE IF frame.kind = "error" THEN OnError(recv(NoMsg, FALSE))
  ELSE IF frame.kind = "eof" THEN OnEndOfStream(recv(NoMsg, TRUE))
  ELSE Ignore(recv(NoMsg, TRUE))

\* the select! branch msg = read.next() is ready: the loop is waiting and the
\* peer still has a frame to deliver
CanRecv == pc = "loop" /\ NumRecv < MaxFrames

\* a Peer frame arrives
RecvPeer ==
  /\ CanRecv
  /\ \E frame \in PeerFrames : HandleFrame(frame)
  /\ UNCHANGED <<repoVars, replicaVars, args, config, clock, last_frame_at, mainVars, tuiVars>>

\* a Sync frame arrives
RecvSync ==
  /\ CanRecv
  /\ \E frame \in SyncFrames : HandleFrame(frame)
  /\ UNCHANGED <<repoVars, replicaVars, args, config, clock, last_frame_at, mainVars, tuiVars>>

\* a Request frame arrives
RecvRequest ==
  /\ CanRecv
  /\ \E frame \in RequestFrames : HandleFrame(frame)
  /\ UNCHANGED <<repoVars, replicaVars, args, config, clock, last_frame_at, mainVars, tuiVars>>

\* a binary frame that is none of Peer, Sync, Request arrives
RecvOtherBinary ==
  /\ CanRecv
  /\ \E frame \in OtherBinaryFrames : HandleFrame(frame)
  /\ UNCHANGED <<repoVars, replicaVars, args, config, clock, last_frame_at, mainVars, tuiVars>>

\* a binary frame of length 0 arrives
RecvEmptyBinary ==
  /\ CanRecv
  /\ \E frame \in {EmptyBinaryFrame} : HandleFrame(frame)
  /\ UNCHANGED <<repoVars, replicaVars, args, config, clock, last_frame_at, mainVars, tuiVars>>

\* the peer closes the connection
RecvClose ==
  /\ CanRecv
  /\ \E frame \in {CloseFrame} : HandleFrame(frame)
  /\ UNCHANGED <<repoVars, replicaVars, args, config, clock, last_frame_at, mainVars, tuiVars>>

\* a text, ping or pong frame arrives
RecvText ==
  /\ CanRecv
  /\ \E frame \in {TextFrame} : HandleFrame(frame)
  /\ UNCHANGED <<repoVars, replicaVars, args, config, clock, last_frame_at, mainVars, tuiVars>>

\* the transport fails
RecvError ==
  /\ CanRecv
  /\ \E frame \in {ErrorFrame} : HandleFrame(frame)
  /\ UNCHANGED <<repoVars, replicaVars, args, config, clock, last_frame_at, mainVars, tuiVars>>

\* the stream ends
RecvEndOfStream ==
  /\ CanRecv
  /\ \E frame \in {EndOfStream} : HandleFrame(frame)
  /\ UNCHANGED <<repoVars, replicaVars, args, config, clock, last_frame_at, mainVars, tuiVars>>

\* a frame of any kind arrives, observed with the time it is read at
RecvTimed ==
  /\ CanRecv
  /\ \E frame \in PeerFrames \cup SyncFrames \cup RequestFrames \cup OtherBinaryFrames
                    \cup {EmptyBinaryFrame, CloseFrame, TextFrame, ErrorFrame, EndOfStream} :
       HandleFrame(frame)
  /\ last_frame_at' = clock
  /\ UNCHANGED <<repoVars, replicaVars, args, config, clock, mainVars, tuiVars>>

\* the session with the arrival times of its frames observed
IdleNext ==
  \/ Start
  \/ Connect
  \/ SendJoin
  \/ Tick
  \/ Timeout
  \/ RecvTimed

Next ==
  \/ Start
  \/ Connect
  \/ SendJoin
  \/ Tick
  \/ Timeout
  \/ RecvPeer
  \/ RecvSync
  \/ RecvRequest
  \/ RecvOtherBinary
  \/ RecvEmptyBinary
  \/ RecvClose
  \/ RecvText
  \/ RecvError
  \/ RecvEndOfStream

\* ------------------------------------------------------------- properties
Idx == 1..Len(events)

\* the history entry of a decoded inbound message of the given variant
IsRecv(e, type) == e.ev = "recv" /\ e.key = "binary" /\ e.ok /\ e.msg.type = type

\* C1 as stated: every Peer frame read is followed, before the next frame is
\* read, by a generate_sync_message call keyed by the Peer's sender id and
\* (when the call returned a diff) by an attempt to send it as a Sync frame.
C1_AlwaysSends ==
  \A i \in Idx : IsRecv(events[i], "peer") =>
    /\ i + 1 <= Len(events)
    /\ events[i + 1].ev = "gen"
    /\ events[i + 1].key = events[i].msg.sender_id
    /\ events[i + 1].ok =>
         /\ i + 2 <= Len(events)
         /\ events[i + 2].ev = "send"
         /\ events[i + 2].msg.type = "sync"

\* C1 amended: every Peer frame read is followed at once by a
\* generate_sync_message call keyed by the Peer's sender id; when that call
\* returns a non-empty diff, the next thing the session does, before reading
\* another frame, is to try to send that diff as a Sync frame addressed to the
\* Peer's sender; an empty diff (or a failed call) sends nothing.
C1_PeerThenDiff ==
  \A i \in Idx : IsRecv(events[i], "peer") =>
    /\ i + 1 <= Len(events)
    /\ events[i + 1].ev = "gen"
    /\ events[i + 1].key = events[i].msg.sender_id
    /\ IF events[i + 1].ok /\ events[i + 1].msg.data.len > 0
       THEN /\ i + 2 <= Len(events)
            /\ events[i + 2].ev = "send"
            /\ events[i + 2].msg = Sync(DocumentId, LocalPeerId, events[i].msg.sender_id,
                                        events[i + 1].msg.data)
       ELSE i + 1 = Len(events) \/ events[i + 2].ev = "recv"

\* a Peer frame was answered with a Sync frame and a further frame was read
C1_Witness ==
  \E i \in Idx :
    /\ IsRecv(events[i], "peer")
    /\ i + 3 <= Len(events)
    /\ events[i + 2].ev = "send" /\ events[i + 2].ok
    /\ events[i + 3].ev = "recv"

MatchingSyncs ==
  {i \in Idx : IsRecv(events[i], "sync") /\ events[i].msg.document_id = DocumentId}

\* C2: changes_received counts exactly the Sync frames read whose document id
\* is the session's, one per frame, and apply_sync_message is only ever called
\* for such a frame; a Sync frame for another document is not applied and not
\* counted.  Holds with and without dry_run.
C2_SyncCounting ==
  /\ changes_received = Cardinality(MatchingSyncs)
  /\ \A i \in Idx : events[i].ev = "apply" => (i > 1 /\ (i - 1) \in MatchingSyncs)

\* a session that has read a Sync frame for another document and one for its own
C2_Witness ==
  /\ changes_received = 1
  /\ \E i \in Idx : IsRecv(events[i], "sync") /\ events[i].msg.document_id # DocumentId
  /\ \E i \in Idx : IsRecv(events[i], "sync") /\ events[i].msg.document_id = DocumentId

\* C3: in a dry-run session no step changes the store and
\* apply_sync_message is never called.
C3_DryRunFrame ==
  [][args.dry_run =>
       /\ store' = store
       /\ \A i \in 1..Len(events') : events'[i].ev # "apply"]_vars

\* a dry-run session has read a matching Sync frame whose changes the store
\* does not have
C3_Witness ==
  /\ args.dry_run
  /\ \E i \in MatchingSyncs :
       events[i].msg.data.valid /\ ~(events[i].msg.data.ids \subseteq store)

JoinSends == {i \in Idx : events[i].ev = "send" /\ events[i].msg.type = "join"}

\* C4: the Join frame is the first thing the session does on the connection:
\* nothing is sent or read before it, it is sent once, the loop is entered only
\* after it was sent, and a failed send ends the session with a SyncError
\* before any frame is read.
C4_JoinFirst ==
  /\ Cardinality(JoinSends) <= 1
  /\ events # <<>> => JoinSends = {1}
  /\ pc = "loop" => (JoinSends = {1} /\ events[1].ok)
  /\ exit \notin {"-", "disabled", "connect_failed"} => JoinSends = {1}
  /\ (events # <<>> /\ ~events[1].ok) =>
       /\ pc = "done" /\ exit = "join_failed"
       /\ result = Err("SyncError") /\ response = <<>>
       /\ Len(events) = 1

\* the Join was sent, a frame was read and a Sync frame was sent after it
C4_Witness ==
  /\ JoinSends = {1}
  /\ \E i \in Idx : events[i].ev = "recv"
  /\ \E i \in Idx : events[i].ev = "send" /\ events[i].msg.type = "sync" /\ events[i].ok

\* the protocol state the session is in, as far as the code keeps it: the
\* peer is known once _remote_peer_id is Some
Phase ==
  IF pc \in {"start", "connect", "join"} THEN "Connecting"
  ELSE IF pc = "loop" THEN (IF remote_peer_id = <<>> THEN "AwaitingPeer" ELSE "Exchanging")
  ELSE "Terminated"

PhaseRank ==
  CASE Phase = "Connecting" -> 0
    [] Phase = "AwaitingPeer" -> 1
    [] Phase = "Exchanging" -> 2
    [] OTHER -> 3

\* this step applied a Sync frame or generated a diff in answer to a Request
AppliedOrAnswered ==
  \E i \in (Len(events) + 1)..Len(events') :
    \/ events'[i].ev = "apply"
    \/ events'[i].ev = "gen" /\ IsRecv(events'[i - 1], "request")

\* C5 as stated: the session moves through Connecting, AwaitingPeer,
\* Exchanging, Terminated in that order, and a step applies a Sync frame or
\* answers a Request only when it starts in Exchanging, that is after a Peer
\* frame was received.
C5_StateMachine ==
  [][/\ PhaseRank' >= PhaseRank
     /\ AppliedOrAnswered => Phase = "Exchanging"]_vars

SyncSendsOk == {i \in Idx : events[i].ev = "send" /\ events[i].msg.type = "sync" /\ events[i].ok}

\* C6: a session ended by the timeout has returned Ok and reported a response
\* with success = true and the counters as they stood when the timeout fired.
C6_TimeoutReports ==
  exit = "timeout" =>
    /\ pc = "done"
    /\ result = Ok
    /\ response = <<[document_id |-> DocumentId,
                     changes_received |-> changes_received,
                     changes_sent |-> changes_sent,
                     success |-> TRUE]>>
    /\ changes_received = Cardinality(MatchingSyncs)
    /\ changes_sent = Cardinality(SyncSendsOk)

\* the timeout ended a session that had received and sent changes
C6_Witness == exit = "timeout" /\ changes_received > 0 /\ changes_sent > 0

C8_ErrorVsClose ==
  \A i \in Idx :
    /\ (events[i].ev = "recv" /\ events[i].key = "error") \/ (events[i].ev = "send" /\ ~events[i].ok) =>
         /\ i = Len(events) /\ pc = "done"
         /\ result = Err("SyncError") /\ response = <<>>
    /\ (events[i].ev = "recv" /\ events[i].key \in {"close", "eof"}) =>
         /\ i = Len(events) /\ pc = "done"
         /\ result = Ok /\ response # <<>> /\ response[1].success

\* a transport error hit a session that had already handled a frame
C8_Witness ==
  /\ Len(events) > 2
  /\ events[Len(events)].ev = "recv" /\ events[Len(events)].key = "error"

\* C9 as stated: a binary frame that does not decode as a protocol message
\* ends the session with an error returned to the caller.
C9_DecodeFailureAborts ==
  \A i \in Idx :
    (events[i].ev = "recv" /\ events[i].key = "binary" /\ ~events[i].ok /\ events[i].msg = NoMsg) =>
      /\ i = Len(events)
      /\ pc = "done"
      /\ result.status = "Err"

\* C10 as stated: every Request frame for the session's document is answered,
\* before the next frame is read, with a Sync frame carrying the current diff
\* from the local peer to the requester (unless generating the diff failed);
\* a Request for another document produces nothing.
C10_AlwaysResponds ==
  \A i \in Idx : IsRecv(events[i], "request") =>
    IF events[i].msg.document_id = DocumentId
    THEN /\ i + 1 <= Len(events)
         /\ events[i + 1].ev = "gen"
         /\ events[i + 1].ok =>
              /\ i + 2 <= Len(events)
              /\ events[i + 2].ev = "send"
              /\ events[i + 2].msg = Sync(events[i].msg.document_id, LocalPeerId,
                                          events[i].msg.sender_id, events[i + 1].msg.data)
    ELSE i = Len(events) \/ events[i + 1].ev = "recv"

\* C10 amended: every Request frame for the session's document makes the
\* session generate its diff for the requester at once; when the diff is not
\* empty the next thing the session does, before reading another frame, is to
\* try to send it as a Sync frame with the same document id from the local
\* peer to the requester; an empty diff (or a failed call) sends nothing, and
\* a Request for another document produces nothing.
C10_RequestThenDiff ==
  \A i \in Idx : IsRecv(events[i], "request") =>
    IF events[i].msg.document_id = DocumentId
    THEN /\ i + 1 <= Len(events)
         /\ events[i + 1].ev = "gen"
         /\ events[i + 1].key = events[i].msg.sender_id
         /\ IF events[i + 1].ok /\ events[i + 1].msg.data.len > 0
            THEN /\ i + 2 <= Len(events)
                 /\ events[i + 2].ev = "send"
                 /\ events[i + 2].msg = Sync(events[i].msg.document_id, LocalPeerId,
                                             events[i].msg.sender_id, events[i + 1].msg.data)
            ELSE i + 1 = Len(events) \/ events[i + 2].ev = "recv"
    ELSE i = Len(events) \/ events[i + 1].ev = "recv"

\* a matching Request was answered with a Sync frame, then another frame was
\* read; and a Request for another document was read
C10_Witness ==
  \E i \in Idx :
    /\ IsRecv(events[i], "request") /\ events[i].msg.document_id = DocumentId
    /\ i + 3 <= Len(events)
    /\ events[i + 2].ev = "send" /\ events[i + 2].ok
    /\ IsRecv(events[i + 3], "request") /\ events[i + 3].msg.document_id # DocumentId

\* ================================================================ repository
\* AutomergeBookmarkRepository (src/src/adapters/automerge_repo.rs): the
\* bookmark collection kept in one document and saved to one snapshot file.

\* ------------------------------------------------------------------ bounds
\* notes add_note makes in one run
MaxNotes == 2
\* storage failures and crashes in one run
MaxFaults == 1

\* ------------------------------------------------------------- value sets
\* bookmark ids, listed in the order doc.keys() yields them
IdOrder == <<"abc", "abcdef1234", "b1", "b2">>

\* the ids of the bookmarks the repository operations are exercised with
Ids == {"b1", "b2"}

ReadingStatus == {"Unread", "Reading", "Completed"}

Note(id, content, created_at) ==
  [id |-> id, content |-> content, created_at |-> created_at]

N1 == Note("n1", "first", 1)
N2 == Note("n2", "second", 2)

\* the fields a caller always sets
ShapeSeq ==
  << [url |-> "https://a.example/", title |-> "A", bookmarked_date |-> 1,
      tags |-> <<>>, notes |-> <<>>, reading_status |-> "Unread"],
     [url |-> "https://b.example/", title |-> "B", bookmarked_date |-> 2,
      tags |-> <<"Rust", "web">>, notes |-> <<N1, N2>>, reading_status |-> "Completed"],
     [url |-> "https://b.example/", title |-> "C", bookmarked_date |-> 2,
      tags |-> <<"cli", "Web">>, notes |-> <<>>, reading_status |-> "Reading"] >>

Shapes == {ShapeSeq[i] : i \in 1..Len(ShapeSeq)}

Authors == {<<>>, <<"ann">>}
PublishDates == {<<>>, <<3>>}
Priorities == {<<>>, <<5>>}

\* struct Bookmark
Bookmark(id, shape, author, publish_date, priority_rating) ==
  [id |-> id, url |-> shape.url, title |-> shape.title,
   bookmarked_date |-> shape.bookmarked_date, author |-> author,
   tags |-> shape.tags, publish_date |-> publish_date, notes |-> shape.notes,
   reading_status |-> shape.reading_status, priority_rating |-> priority_rating]

\* every bookmark over the value sets
AllBookmarks ==
  { Bookmark(id, shape, author, publish_date, priority_rating) :
      id \in Ids, shape \in Shapes, author \in Authors,
      publish_date \in PublishDates, priority_rating \in Priorities }

\* the bookmarks passed to create and update while storage failures and
\* crashes are explored: each optional field present in some and absent in
\* others, each shape in use
Bookmarks ==
  { Bookmark("b1", ShapeSeq[1], <<>>, <<>>, <<>>),
    Bookmark("b1", ShapeSeq[2], <<"ann">>, <<3>>, <<5>>),
    Bookmark("b2", ShapeSeq[3], <<>>, <<3>>, <<>>) }

\* contents a caller passes to add_note, and the times Note::new reads
NoteContents == {"third"}
NoteTimes == {4}

\* the ids Note::new gives (Uuid::new_v4), in the order they are made
FreshNoteIds == <<"m1", "m2", "m3">>

\* the note id a caller passes to remove_note: the first id add_note gave
NoteIdsAsked == {"m1"}

\* tag lists a caller filters by
TagQueries == {<<>>, <<"rust">>, <<"RUST", "web">>, <<"web", "cli">>}

\* str::to_lowercase on the tag names in use
ToLowercase(t) ==
  CASE t \in {"Rust", "RUST", "rust"} -> "rust"
    [] t \in {"Web", "web"} -> "web"
    [] OTHER -> t

\* ------------------------------------------------------------------ codecs
\* DateTime::to_rfc3339: the text of an instant
ToRfc3339(t) == [fmt |-> "rfc3339", instant |-> t]

\* DateTime::parse_from_rfc3339(..).with_timezone(&Utc), as an Option
ParseFromRfc3339(s) == IF s.fmt = "rfc3339" THEN <<s.instant>> ELSE <<>>

\* u8::to_string: the decimal text of a number
U8ToString(n) == [fmt |-> "decimal", digits |-> n]

\* str::parse::<u8>().ok()
ParseU8(s) == IF s.fmt = "decimal" /\ s.digits \in 0..255 THEN <<s.digits>> ELSE <<>>

\* match bookmark.reading_status { Unread => "Unread", ... }
StatusStr(status) ==
  CASE status = "Unread" -> "Unread"
    [] status = "Reading" -> "Reading"
    [] status = "Completed" -> "Completed"

\* variant: whatever is stored, the reading status reads as Unread
StatusFromStr_unread(field) == "Unread"

\* match status_str { "Unread" => Some(Unread), ..., _ => None }.unwrap_or(Unread)
StatusFromStr(field) ==
  IF field = <<>> THEN "Unread"
  ELSE IF field[1] \in {"Unread", "Reading", "Completed"} THEN field[1]
  ELSE "Unread"

\* Option::map
MapOpt(opt, F(_)) == IF opt = <<>> THEN <<>> ELSE <<F(opt[1])>>

\* Option::and_then
AndThen(opt, F(_)) == IF opt = <<>> THEN <<>> ELSE F(opt[1])

MapSeq(s, F(_)) == [i \in 1..Len(s) |-> F(s[i])]

\* add_note_to_list: the map a note is stored as
NoteNode(note) ==
  [id |-> <<note.id>>, content |-> <<note.content>>,
   created_at |-> <<ToRfc3339(note.created_at)>>]

\* put_object(.., ObjType::List) and the inserts, made only for a list that
\* is not empty
ListField(items) == IF items = <<>> THEN <<>> ELSE <<items>>

\* add_bookmark_to_automerge: the map a bookmark is stored as; a field that
\* is not put is absent (<<>>)
BookmarkNode(b) ==
  [id |-> <<b.id>>, url |-> <<b.url>>, title |-> <<b.title>>,
   bookmarked_date |-> <<ToRfc3339(b.bookmarked_date)>>,
   author |-> b.author,
   publish_date |-> MapOpt(b.publish_date, ToRfc3339),
   reading_status |-> <<StatusStr(b.reading_status)>>,
   priority_rating |-> MapOpt(b.priority_rating, U8ToString),
   tags |-> ListField(b.tags),
   notes |-> ListField(MapSeq(b.notes, NoteNode))]

\* note_from_automerge, as an Option: None when a field is missing or the
\* date does not parse
NoteFromAutomerge(node) ==
  IF node.id = <<>> \/ node.content = <<>> \/ node.created_at = <<>> THEN <<>>
  ELSE IF ParseFromRfc3339(node.created_at[1]) = <<>> THEN <<>>
  ELSE <<Note(node.id[1], node.content[1], ParseFromRfc3339(node.created_at[1])[1])>>

RECURSIVE Flatten(_)
Flatten(s) == IF s = <<>> THEN <<>> ELSE Head(s) \o Flatten(Tail(s))

\* get_tags_from_list: no list reads as no tags
GetTagsFromList(node) == IF node.tags = <<>> THEN <<>> ELSE node.tags[1]

\* get_notes_from_list: no list reads as no notes, a note that does not
\* decode is skipped
GetNotesFromList(node) ==
  IF node.notes = <<>> THEN <<>>
  ELSE Flatten(MapSeq(node.notes[1], NoteFromAutomerge))

\* bookmark_from_automerge, as an Option: None stands for Err
BookmarkFromAutomerge(node) ==
  IF node.id = <<>> \/ node.url = <<>> \/ node.title = <<>>
     \/ node.bookmarked_date = <<>> THEN <<>>
  ELSE IF ParseFromRfc3339(node.bookmarked_date[1]) = <<>> THEN <<>>
  ELSE <<[id |-> node.id[1], url |-> node.url[1], title |-> node.title[1],
          bookmarked_date |-> ParseFromRfc3339(node.bookmarked_date[1])[1],
          author |-> node.author,
          tags |-> GetTagsFromList(node),
          publish_date |-> AndThen(node.publish_date, ParseFromRfc3339),
          notes |-> GetNotesFromList(node),
          reading_status |-> StatusFromStr(node.reading_status),
          priority_rating |-> AndThen(node.priority_rating, ParseU8)]>>

\* ---------------------------------------------------------------- document
\* put / put_object on a map key: the key is made or overwritten
PutKey(d, k, v) == [x \in (DOMAIN d) \cup {k} |-> IF x = k THEN v ELSE d[x]]

\* delete on a map key
DelKey(d, k) == [x \in (DOMAIN d) \ {k} |-> d[x]]

\* bookmark_exists
BookmarkExists(d, id) == id \in DOMAIN d

\* doc.keys(&self.bookmarks_map)
Keys(d) == SelectSeq(IdOrder, LAMBDA k : k \in DOMAIN d)

DecodeAt(d, k) == BookmarkFromAutomerge(d[k])

\* find_by_id
FindById(d, id) ==
  IF ~BookmarkExists(d, id) THEN [status |-> "NotFound", out |-> <<>>]
  ELSE IF DecodeAt(d, id) = <<>> THEN [status |-> "InvalidUrl", out |-> <<>>]
  ELSE [status |-> "Ok", out |-> DecodeAt(d, id)]

\* variant: a bookmark passes when it carries any one of the tags asked for
HasAllTags_any(b, tags_lower) ==
  \/ tags_lower = <<>>
  \/ \E i \in 1..Len(tags_lower) :
       \E j \in 1..Len(b.tags) : ToLowercase(b.tags[j]) = tags_lower[i]

\* tags_lower.iter().all(|tag| bookmark.tags.iter().any(|t| t.to_lowercase() == *tag))
HasAllTags(b, tags_lower) ==
  \A i \in 1..Len(tags_lower) :
    \E j \in 1..Len(b.tags) : ToLowercase(b.tags[j]) = tags_lower[i]

\* the longest text typed into the add form and into the search line
MaxInput == 2
MaxQuery == 1

\* the characters typed into the add form and into the search line
InputChars == {"a", ":"}
QueryChars == {"N", " "}

\* the texts of at most n characters over an alphabet
Texts(alphabet, n) == UNION {[1..k -> alphabet] : k \in 0..n}

TypedTexts == Texts(InputChars, MaxInput) \cup Texts(QueryChars, MaxQuery)

\* String: the text made of the characters
RECURSIVE Str(_)
Str(q) == IF q = <<>> THEN "" ELSE q[1] \o Str(Tail(q))

\* the characters of the texts in use
Chars(s) ==
  CASE s = "A" -> <<"A">>
    [] s = "B" -> <<"B">>
    [] s = "C" -> <<"C">>
    [] s = "https://a.example/" ->
         <<"h", "t", "t", "p", "s", ":", "/", "/", "a", ".",
           "e", "x", "a", "m", "p", "l", "e", "/">>
    [] s = "https://b.example/" ->
         <<"h", "t", "t", "p", "s", ":", "/", "/", "b", ".",
           "e", "x", "a", "m", "p", "l", "e", "/">>
    [] s = "ann" -> <<"a", "n", "n">>
    [] s = "first" -> <<"f", "i", "r", "s", "t">>
    [] s = "second" -> <<"s", "e", "c", "o", "n", "d">>
    [] s = "third" -> <<"t", "h", "i", "r", "d">>
    [] s = "NN" -> <<"N", "N">>
    [] s = "" -> <<>>
    [] s = "ab" -> <<"a", "b">>
    [] s = "abc" -> <<"a", "b", "c">>
    [] s = "abcdef12" -> <<"a", "b", "c", "d", "e", "f", "1", "2">>
    [] s = "abcdef123" -> <<"a", "b", "c", "d", "e", "f", "1", "2", "3">>
    [] s = "abcdef1234" -> <<"a", "b", "c", "d", "e", "f", "1", "2", "3", "4">>
    [] s = "b" -> <<"b">>
    [] s = "b1" -> <<"b", "1">>
    [] s = "b2" -> <<"b", "2">>
    [] s = "zz" -> <<"z", "z">>
    [] s = "IR" -> <<"I", "R">>
    [] \E q \in TypedTexts : Str(q) = s -> CHOOSE q \in TypedTexts : Str(q) = s
    [] OTHER -> <<s>>

LowerChar(c) ==
  CASE c = "A" -> "a"
    [] c = "B" -> "b"
    [] c = "C" -> "c"
    [] c = "I" -> "i"
    [] c = "N" -> "n"
    [] c = "R" -> "r"
    [] OTHER -> c

\* str::to_lowercase on a text
TextToLowercase(s) == MapSeq(Chars(s), LowerChar)

\* str::contains
Contains(hay, needle) ==
  \E i \in 0..(Len(hay) - Len(needle)) : SubSeq(hay, i + 1, i + Len(needle)) = needle

\* the text query filter: title, url, author or any note content contains
\* the lowercased query
TextMatches(b, query_lower) ==
  \/ Contains(TextToLowercase(b.title), query_lower)
  \/ Contains(TextToLowercase(b.url), query_lower)
  \/ (b.author # <<>> /\ Contains(TextToLowercase(b.author[1]), query_lower))
  \/ \E i \in 1..Len(b.notes) : Contains(TextToLowercase(b.notes[i].content), query_lower)

\* variant: a bookmark without a rating passes the range
InPriorityRange_unrated(b, range) ==
  \/ b.priority_rating = <<>>
  \/ (b.priority_rating[1] >= range[1] /\ b.priority_rating[1] <= range[2])

\* the priority range filter: no rating, no match
InPriorityRange(b, range) ==
  IF b.priority_rating # <<>>
  THEN b.priority_rating[1] >= range[1] /\ b.priority_rating[1] <= range[2]
  ELSE FALSE

SortBy == {"BookmarkedDate", "PublishDate", "Title", "Priority"}
SortDirection == {"Ascending", "Descending"}

\* struct BookmarkFilters: every field an Option
BookmarkFilters(text_query, tags, reading_status, priority_range, bookmarked_since, bookmarked_until, published_since, published_until, sort_by, sort_order) ==
  [text_query |-> text_query, tags |-> tags, reading_status |-> reading_status,
   priority_range |-> priority_range, bookmarked_since |-> bookmarked_since,
   bookmarked_until |-> bookmarked_until, published_since |-> published_since,
   published_until |-> published_until, sort_by |-> sort_by,
   sort_order |-> sort_order]

\* BookmarkFilters with tags, reading status and priority range only
Filters(tags, reading_status, priority_range) ==
  BookmarkFilters(<<>>, tags, reading_status, priority_range, <<>>, <<>>, <<>>, <<>>,
                  <<>>, <<>>)

\* filters a caller passes to find_all: None, or Some with only tags set
FilterArgs ==
  {<<>>} \cup {<<Filters(<<>>, <<>>, <<>>)>>}
         \cup {<<Filters(<<t>>, <<>>, <<>>)>> : t \in TagQueries}

\* variant: only the priority range is applied
ApplyFilters_priorityOnly(bookmarks, filters) ==
  IF filters.priority_range = <<>> THEN bookmarks
  ELSE SelectSeq(bookmarks, LAMBDA b : InPriorityRange(b, filters.priority_range[1]))

\* apply_filters: the four retain passes; the date bounds and the sort
\* fields of the filters are not read
ApplyFilters(bookmarks, filters) ==
  LET byText ==
        IF filters.text_query = <<>> THEN bookmarks
        ELSE SelectSeq(bookmarks,
               LAMBDA b : TextMatches(b, TextToLowercase(filters.text_query[1])))
      byTags ==
        IF filters.tags = <<>> THEN byText
        ELSE SelectSeq(byText,
               LAMBDA b : HasAllTags(b, MapSeq(filters.tags[1], ToLowercase)))
      byStatus ==
        IF filters.reading_status = <<>> THEN byTags
        ELSE SelectSeq(byTags, LAMBDA b : b.reading_status = filters.reading_status[1])
      byPriority ==
        IF filters.priority_range = <<>> THEN byStatus
        ELSE SelectSeq(byStatus, LAMBDA b : InPriorityRange(b, filters.priority_range[1]))
  IN byPriority

\* variant: one entry that does not decode empties the result
FindAll_abort(d, filters) ==
  LET all == Flatten(MapSeq(Keys(d), LAMBDA k : DecodeAt(d, k)))
      seen == IF \E k \in DOMAIN d : DecodeAt(d, k) = <<>> THEN <<>> ELSE all
  IN IF filters = <<>> THEN seen ELSE ApplyFilters(seen, filters[1])

\* find_all: every key in order, bookmarks that do not decode are skipped
FindAll(d, filters) ==
  LET all == Flatten(MapSeq(Keys(d), LAMBDA k : DecodeAt(d, k)))
  IN IF filters = <<>> THEN all ELSE ApplyFilters(all, filters[1])

\* find_by_tags
FindByTags(d, tags) ==
  SelectSeq(FindAll(d, <<>>), LAMBDA b : HasAllTags(b, MapSeq(tags, ToLowercase)))

\* variant: the tags given are added to the tags stored
UpdateTagsList_union(node, new_tags) ==
  ListField(GetTagsFromList(node) \o new_tags)

\* update_tags_list: delete "tags", then a new list when there are tags
UpdateTagsList(node, new_tags) == ListField(new_tags)

\* update_notes_list: delete "notes", then a new list when there are notes
UpdateNotesList(node, new_notes) == ListField(MapSeq(new_notes, NoteNode))

\* update_bookmark_fields: the id field is not written
UpdateBookmarkFields(node, b) ==
  [node EXCEPT !.url = <<b.url>>,
               !.title = <<b.title>>,
               !.bookmarked_date = <<ToRfc3339(b.bookmarked_date)>>,
               !.author = b.author,
               !.publish_date = MapOpt(b.publish_date, ToRfc3339),
               !.reading_status = <<StatusStr(b.reading_status)>>,
               !.priority_rating = MapOpt(b.priority_rating, U8ToString),
               !.tags = UpdateTagsList(node, b.tags),
               !.notes = UpdateNotesList(node, b.notes)]

\* the notes list of a stored bookmark, empty when there is none
NotesList(node) == IF node.notes = <<>> THEN <<>> ELSE node.notes[1]

\* variant: the new note is put in front
AppendNote_front(node, note) ==
  [node EXCEPT !.notes = << <<NoteNode(note)>> \o NotesList(node) >>]

\* add_note: get or create the notes list, insert_object at its length
AppendNote(node, note) ==
  [node EXCEPT !.notes = <<Append(NotesList(node), NoteNode(note))>>]

\* remove_note's loop: the first position whose note has the id, 0 for none
FirstIndex(list, note_id) ==
  LET hits == {i \in 1..Len(list) : list[i].id = <<note_id>>}
  IN IF hits = {} THEN 0 ELSE CHOOSE i \in hits : \A j \in hits : i <= j

\* doc.delete(&notes_list, i)
RemoveAt(list, i) == SubSeq(list, 1, i - 1) \o SubSeq(list, i + 1, Len(list))

\* -------------------------------------------------------------------- files
\* a complete doc.save() of the document
Snapshot(d) == [kind |-> "snapshot", map |-> d]

\* a prefix of the bytes of doc.save(): no document can be read from it
PartialFile == [kind |-> "partial", map |-> <<>>]

\* a file of length 0
EmptyFile == [kind |-> "empty", map |-> <<>>]

\* variant: an empty file is taken for a damaged document
LoadFromFile_strict(f) ==
  CASE f.kind = "absent" -> [ok |-> TRUE, map |-> <<>>]
    [] f.kind = "snapshot" -> [ok |-> TRUE, map |-> f.map]
    [] OTHER -> [ok |-> FALSE, map |-> <<>>]

\* load_from_file: no file or an empty file gives a new document, a file
\* that does not load is an error
LoadFromFile(f) ==
  CASE f.kind \in {"absent", "empty"} -> [ok |-> TRUE, map |-> <<>>]
    [] f.kind = "snapshot" -> [ok |-> TRUE, map |-> f.map]
    [] OTHER -> [ok |-> FALSE, map |-> <<>>]

\* --------------------------------------------------------------- operations
Called(op, id, arg, note) == [op |-> op, id |-> id, arg |-> arg, note |-> note]

Returned(op, id, status, out, note, tags) ==
  [op |-> op, id |-> id, status |-> status, out |-> out, note |-> note,
   tags |-> tags]

\* an operation that returns without saving: nothing but the result changes
ReturnNow(r) ==
  /\ last' = r
  /\ UNCHANGED <<doc, file, temp, rpc, call, note_seq, faults, gone>>

\* a mutating operation has changed the document and goes on to self.save();
\* the caller has no result until it returns
ThenSave(d, c) ==
  /\ doc' = d
  /\ call' = c
  /\ rpc' = "write"
  /\ last' = NoReturn
  /\ UNCHANGED <<file, temp, faults>>

\* what a mutating operation returns after save(): Ok with the bookmark
\* passed in (call.arg), the id of the new note, or ()
SavedResult(c) == Returned(c.op, c.id, "Ok", <<>>, c.note, <<>>)

\* what it returns when save() fails: the ? operator passes the error on
FailedResult(c) == Returned(c.op, c.id, "InvalidUrl", <<>>, "-", <<>>)

NotFound(op, id) == Returned(op, id, "NotFound", <<>>, "-", <<>>)

\* variant: the entry is filed under the bookmark's url
CreateOp_keyByUrl(b) ==
  /\ ThenSave(PutKey(doc, b.url, BookmarkNode(b)), Called("create", b.id, <<b>>, "-"))
  /\ gone' = gone \ {b.id}
  /\ UNCHANGED note_seq

\* create: add_bookmark_to_automerge, save
CreateOp(b) ==
  /\ ThenSave(PutKey(doc, b.id, BookmarkNode(b)), Called("create", b.id, <<b>>, "-"))
  /\ gone' = gone \ {b.id}
  /\ UNCHANGED note_seq

Create ==
  /\ rpc = "idle"
  /\ \E b \in Bookmarks : CreateOp(b)
  /\ UNCHANGED <<syncVars, replicaVars, mainVars, tuiVars>>

\* create, called with any bookmark over the value sets
CreateAny ==
  /\ rpc = "idle"
  /\ \E b \in AllBookmarks : CreateOp(b)
  /\ UNCHANGED <<syncVars, replicaVars, mainVars, tuiVars>>

\* variant: an id that is not stored is stored
UpdateOp_upsert(b) ==
  /\ ThenSave(PutKey(doc, b.id, BookmarkNode(b)), Called("update", b.id, <<b>>, "-"))
  /\ UNCHANGED <<note_seq, gone>>

\* update: NotFound when the id is not stored, else update_bookmark_fields, save
UpdateOp(b) ==
  IF ~BookmarkExists(doc, b.id)
  THEN ReturnNow(NotFound("update", b.id))
  ELSE /\ ThenSave([doc EXCEPT ![b.id] = UpdateBookmarkFields(doc[b.id], b)],
                   Called("update", b.id, <<b>>, "-"))
       /\ UNCHANGED <<note_seq, gone>>

Update ==
  /\ rpc = "idle"
  /\ \E b \in Bookmarks : UpdateOp(b)
  /\ UNCHANGED <<syncVars, replicaVars, mainVars, tuiVars>>

\* variant: the bookmark is only marked, its key stays in the map
DeleteOp_keepKey(id) ==
  IF ~BookmarkExists(doc, id)
  THEN ReturnNow(NotFound("delete", id))
  ELSE /\ ThenSave(doc, Called("delete", id, <<>>, "-"))
       /\ UNCHANGED <<note_seq, gone>>

\* delete: NotFound when the id is not stored, else doc.delete, save
DeleteOp(id) ==
  IF ~BookmarkExists(doc, id)
  THEN ReturnNow(NotFound("delete", id))
  ELSE /\ ThenSave(DelKey(doc, id), Called("delete", id, <<>>, "-"))
       /\ UNCHANGED <<note_seq, gone>>

Delete ==
  /\ rpc = "idle"
  /\ \E id \in Ids : DeleteOp(id)
  /\ UNCHANGED <<syncVars, replicaVars, mainVars, tuiVars>>

\* add_note: NotFound when the bookmark is not stored, else Note::new,
\* the note is inserted at the end of the list, save
AddNoteOp(id, content, now) ==
  IF ~BookmarkExists(doc, id)
  THEN ReturnNow(NotFound("add_note", id))
  ELSE LET note == Note(FreshNoteIds[note_seq + 1], content, now)
       IN /\ ThenSave([doc EXCEPT ![id] = AppendNote(doc[id], note)],
                      Called("add_note", id, <<>>, note.id))
          /\ note_seq' = note_seq + 1
          /\ UNCHANGED gone

AddNote ==
  /\ rpc = "idle"
  /\ note_seq < MaxNotes
  /\ \E id \in Ids, content \in NoteContents, now \in NoteTimes :
       AddNoteOp(id, content, now)
  /\ UNCHANGED <<syncVars, replicaVars, mainVars, tuiVars>>

\* variant: a note id that is not in the list is a silent no-op that saves
RemoveNoteOp_silent(id, note_id) ==
  IF ~BookmarkExists(doc, id)
  THEN ReturnNow(NotFound("remove_note", id))
  ELSE IF doc[id].notes = <<>>
  THEN ReturnNow(NotFound("remove_note", id))
  ELSE IF FirstIndex(doc[id].notes[1], note_id) = 0
  THEN /\ ThenSave(doc, Called("remove_note", id, <<>>, note_id))
       /\ UNCHANGED <<note_seq, gone>>
  ELSE /\ ThenSave([doc EXCEPT ![id].notes =
                      <<RemoveAt(doc[id].notes[1], FirstIndex(doc[id].notes[1], note_id))>>],
                   Called("remove_note", id, <<>>, note_id))
       /\ UNCHANGED <<note_seq, gone>>

\* remove_note: NotFound when the bookmark, the list or the note is not
\* there, else the first note with the id is deleted, save
RemoveNoteOp(id, note_id) ==
  IF ~BookmarkExists(doc, id)
  THEN ReturnNow(NotFound("remove_note", id))
  ELSE IF doc[id].notes = <<>>
  THEN ReturnNow(NotFound("remove_note", id))
  ELSE IF FirstIndex(doc[id].notes[1], note_id) = 0
  THEN ReturnNow(NotFound("remove_note", id))
  ELSE /\ ThenSave([doc EXCEPT ![id].notes =
                      <<RemoveAt(doc[id].notes[1], FirstIndex(doc[id].notes[1], note_id))>>],
                   Called("remove_note", id, <<>>, note_id))
       /\ UNCHANGED <<note_seq, gone>>

RemoveNote ==
  /\ rpc = "idle"
  /\ \E id \in Ids, note_id \in NoteIdsAsked : RemoveNoteOp(id, note_id)
  /\ UNCHANGED <<syncVars, replicaVars, mainVars, tuiVars>>

\* find_by_id
FindByIdCall ==
  /\ rpc = "idle"
  /\ \E id \in Ids :
       ReturnNow(Returned("find_by_id", id, FindById(doc, id).status,
                          FindById(doc, id).out, "-", <<>>))
  /\ UNCHANGED <<syncVars, replicaVars, mainVars, tuiVars>>

\* find_all
FindAllCall ==
  /\ rpc = "idle"
  /\ \E filters \in FilterArgs :
       ReturnNow(Returned("find_all", "-", "Ok", FindAll(doc, filters), "-",
                          AndThen(filters, LAMBDA f : f.tags)))
  /\ UNCHANGED <<syncVars, replicaVars, mainVars, tuiVars>>

\* find_by_tags
FindByTagsCall ==
  /\ rpc = "idle"
  /\ \E tags \in TagQueries :
       ReturnNow(Returned("find_by_tags", "-", "Ok", FindByTags(doc, tags), "-",
                          <<tags>>))
  /\ UNCHANGED <<syncVars, replicaVars, mainVars, tuiVars>>

\* variant: save() writes the bytes to file_path itself
SaveWrite_inPlace ==
  /\ rpc = "write"
  /\ \/ /\ file' = Snapshot(doc)
        /\ rpc' = "rename"
        /\ UNCHANGED <<temp, last, faults>>
     \/ /\ faults < MaxFaults
        /\ file' \in {file, PartialFile}
        /\ rpc' = "idle"
        /\ last' = FailedResult(call)
        /\ faults' = faults + 1
        /\ UNCHANGED temp
  /\ UNCHANGED <<doc, call, note_seq, gone, syncVars, replicaVars, mainVars, tuiVars>>

\* save(), first step: fs::write(&temp_path, bytes).  A failed write leaves
\* the temp file as it was or holding part of the bytes.
SaveWrite ==
  /\ rpc = "write"
  /\ \/ /\ temp' = Snapshot(doc)
        /\ rpc' = "rename"
        /\ UNCHANGED <<last, faults>>
     \/ /\ faults < MaxFaults
        /\ temp' \in {temp, PartialFile}
        /\ rpc' = "idle"
        /\ last' = FailedResult(call)
        /\ faults' = faults + 1
  /\ UNCHANGED <<doc, file, call, note_seq, gone, syncVars, replicaVars, mainVars, tuiVars>>

\* variant: the operation returns without the rename onto file_path
SaveRename_unsaved ==
  /\ rpc = "rename"
  /\ last' = SavedResult(call)
  /\ gone' = IF call.op = "delete" THEN gone \cup {call.id} ELSE gone
  /\ rpc' = "idle"
  /\ UNCHANGED <<doc, file, temp, call, note_seq, faults, syncVars, replicaVars, mainVars, tuiVars>>

\* save(), second step: fs::rename(&temp_path, &self.file_path), and the
\* operation returns
SaveRename ==
  /\ rpc = "rename"
  /\ \/ /\ file' = temp
        /\ temp' = NoFile
        /\ last' = SavedResult(call)
        /\ gone' = IF call.op = "delete" THEN gone \cup {call.id} ELSE gone
        /\ UNCHANGED faults
     \/ /\ faults < MaxFaults
        /\ last' = FailedResult(call)
        /\ faults' = faults + 1
        /\ UNCHANGED <<file, temp, gone>>
  /\ rpc' = "idle"
  /\ UNCHANGED <<doc, call, note_seq, syncVars, replicaVars, mainVars, tuiVars>>

\* the process dies: the instance and its document are lost, the files stay.
\* A crash during fs::write can leave part of the bytes in the temp file.
Crash ==
  /\ rpc \in {"idle", "write", "rename"}
  /\ faults < MaxFaults
  /\ temp' \in (IF rpc = "write" THEN {temp, PartialFile} ELSE {temp})
  /\ doc' = <<>>
  /\ rpc' = "closed"
  /\ call' = NoCall
  /\ last' = Returned("crash", "-", "-", <<>>, "-", <<>>)
  /\ faults' = faults + 1
  /\ UNCHANGED <<file, note_seq, gone, syncVars, replicaVars, mainVars, tuiVars>>

\* the instance is dropped
Close ==
  /\ rpc = "idle"
  /\ doc' = <<>>
  /\ rpc' = "closed"
  /\ call' = NoCall
  /\ last' = Returned("close", "-", "Ok", <<>>, "-", <<>>)
  /\ UNCHANGED <<file, temp, note_seq, faults, gone, syncVars, replicaVars, mainVars, tuiVars>>

\* AutomergeBookmarkRepository::new(file_path): load_from_file
Open ==
  /\ rpc = "closed"
  /\ IF LoadFromFile(file).ok
     THEN /\ doc' = LoadFromFile(file).map
          /\ rpc' = "idle"
          /\ last' = Returned("new", "-", "Ok", <<>>, "-", <<>>)
     ELSE /\ last' = Returned("new", "-", "InvalidUrl", <<>>, "-", <<>>)
          /\ UNCHANGED <<doc, rpc>>
  /\ UNCHANGED <<file, temp, call, note_seq, faults, gone, syncVars, replicaVars, mainVars, tuiVars>>

\* no sync session runs while the repository is exercised
SyncAtRest ==
  /\ args = [document_id |-> <<>>, dry_run |-> FALSE, timeout |-> <<>>]
  /\ config = [enabled |-> TRUE, timeout_secs |-> MaxTimeout]
  /\ store = {}
  /\ pc = "start"
  /\ clock = 0
  /\ last_frame_at = 0
  /\ remote_peer_id = <<>>
  /\ changes_received = 0
  /\ changes_sent = 0
  /\ events = <<>>
  /\ exit = "-"
  /\ result = Running
  /\ response = <<>>

\* a new instance on a path that holds no file or an empty file
RepoInit ==
  /\ MainAtRest
  /\ TuiAtRest
  /\ SyncAtRest
  /\ ReplicasAtRest
  /\ doc = <<>>
  /\ file \in {NoFile, EmptyFile}
  /\ temp = NoFile
  /\ rpc = "idle"
  /\ call = NoCall
  /\ last = Returned("new", "-", "Ok", <<>>, "-", <<>>)
  /\ note_seq = 0
  /\ faults = 0
  /\ gone = {}

RepoNext ==
  \/ Create
  \/ Update
  \/ Delete
  \/ AddNote
  \/ RemoveNote
  \/ SaveWrite
  \/ SaveRename
  \/ Crash
  \/ Close
  \/ Open

\* a new instance on a path that holds no file, on storage that does not fail
QueryInit ==
  /\ MainAtRest
  /\ TuiAtRest
  /\ SyncAtRest
  /\ ReplicasAtRest
  /\ doc = <<>>
  /\ file = NoFile
  /\ temp = NoFile
  /\ rpc = "idle"
  /\ call = NoCall
  /\ last = Returned("new", "-", "Ok", <<>>, "-", <<>>)
  /\ note_seq = 0
  /\ faults = MaxFaults
  /\ gone = {}

QueryNext ==
  \/ CreateAny
  \/ FindByIdCall
  \/ FindAllCall
  \/ FindByTagsCall
  \/ SaveWrite
  \/ SaveRename

\* ------------------------------------------------------------ filtered reads
\* the optional fields of the bookmarks a stored file holds under one id
StoredProfiles ==
  << [shape |-> 1, author |-> <<>>, publish_date |-> <<>>, priority_rating |-> <<>>],
     [shape |-> 2, author |-> <<"ann">>, publish_date |-> <<3>>, priority_rating |-> <<5>>],
     [shape |-> 3, author |-> <<>>, publish_date |-> <<1>>, priority_rating |-> <<3>>],
     [shape |-> 1, author |-> <<"ann">>, publish_date |-> <<3>>, priority_rating |-> <<1>>],
     [shape |-> 2, author |-> <<>>, publish_date |-> <<>>, priority_rating |-> <<3>>],
     [shape |-> 3, author |-> <<"ann">>, publish_date |-> <<2>>, priority_rating |-> <<>>] >>

StoredBookmarks(id) ==
  { Bookmark(id, ShapeSeq[StoredProfiles[i].shape], StoredProfiles[i].author,
             StoredProfiles[i].publish_date, StoredProfiles[i].priority_rating) :
      i \in 1..Len(StoredProfiles) }

\* a text that is not an RFC 3339 date
NotADate(t) == [fmt |-> "text", instant |-> t]

\* entries of a file written elsewhere: a required field is missing, or a
\* date is not a date
DamagedNodes(id) ==
  LET n == BookmarkNode(Bookmark(id, ShapeSeq[2], <<"ann">>, <<3>>, <<5>>))
  IN { [n EXCEPT !.id = <<>>],
       [n EXCEPT !.url = <<>>],
       [n EXCEPT !.title = <<>>],
       [n EXCEPT !.bookmarked_date = <<>>],
       [n EXCEPT !.bookmarked_date = <<NotADate(2)>>],
       [n EXCEPT !.publish_date = <<NotADate(3)>>] }

StoredNodes(id) == {BookmarkNode(b) : b \in StoredBookmarks(id)} \cup DamagedNodes(id)

\* the bookmarks maps a file at the path can hold
StoredDocs ==
  UNION { { d \in [K -> UNION {StoredNodes(k) : k \in K}] :
              \A k \in K : d[k] \in StoredNodes(k) } : K \in SUBSET Ids }

TextQueries == {<<>>, <<"B">>, <<"NN">>}
TagFilters == {<<>>, << <<"rust">> >>, << <<"RUST", "web">> >>}
StatusFilters == {<<>>, <<"Completed">>, <<"Reading">>}
PriorityRanges == {<<>>, << <<1, 5>> >>, << <<2, 4>> >>, << <<5, 5>> >>}

\* the filters a caller passes: any combination of the text, tags, status and
\* priority filters; any combination of the date bounds; any sort
FilterSet ==
  { BookmarkFilters(q, t, st, pr, <<>>, <<>>, <<>>, <<>>, <<>>, <<>>) :
      q \in TextQueries, t \in TagFilters, st \in StatusFilters, pr \in PriorityRanges }
  \cup
  { BookmarkFilters(<<>>, <<>>, <<>>, <<>>, bs, bu, ps, pu, <<>>, <<>>) :
      bs \in {<<>>, <<2>>}, bu \in {<<>>, <<1>>}, ps \in {<<>>, <<2>>},
      pu \in {<<>>, <<2>>} }
  \cup
  { BookmarkFilters(<<>>, <<>>, <<>>, <<>>, <<>>, <<>>, <<>>, <<>>, sb, so) :
      sb \in {<<>>} \cup {<<k>> : k \in SortBy},
      so \in {<<>>} \cup {<<o>> : o \in SortDirection} }

FindAllArgs == {<<>>} \cup {<<f>> : f \in FilterSet}

\* find_all(filters), once, on the instance the process has opened (the
\* list and search commands); call keeps the arguments given
FindAllFiltered ==
  /\ rpc = "idle"
  /\ call = NoCall
  /\ \E filters \in FindAllArgs :
       /\ call' = Called("find_all", "-", filters, "-")
       /\ last' = Returned("find_all", "-", "Ok", FindAll(doc, filters), "-", <<>>)
  /\ UNCHANGED <<doc, file, temp, rpc, note_seq, faults, gone, syncVars, replicaVars, mainVars, tuiVars>>

\* a new instance on a path that holds a snapshot written earlier
FilterInit ==
  /\ MainAtRest
  /\ TuiAtRest
  /\ SyncAtRest
  /\ ReplicasAtRest
  /\ file \in {Snapshot(d) : d \in StoredDocs}
  /\ doc = LoadFromFile(file).map
  /\ temp = NoFile
  /\ rpc = "idle"
  /\ call = NoCall
  /\ last = Returned("new", "-", "Ok", <<>>, "-", <<>>)
  /\ note_seq = 0
  /\ faults = 0
  /\ gone = {}

FilterNext == FindAllFiltered

\* ---------------------------------------------------------------- ingestion
\* str::trim on the texts a caller types
Trim(t) ==
  CASE t = " web " -> "web"
    [] t = "  " -> ""
    [] OTHER -> t

\* a typed text begins with a scheme: letters, then a colon
HasScheme(q) == \E i \in 2..Len(q) : q[i] = ":" /\ \A j \in 1..(i - 1) : q[j] = "a"

\* Url::parse(url).is_ok() on the urls in use and on the texts typed
UrlParses(url) ==
  \/ url \in {ShapeSeq[i].url : i \in 1..Len(ShapeSeq)}
  \/ \E q \in Texts(InputChars, MaxInput) : Str(q) = url /\ HasScheme(q)

\* variant: the url is stored as given, without Url::parse
BookmarkNew_unchecked(url, title, id, now) ==
  IF Trim(title) = "" THEN [status |-> "EmptyTitle", bookmark |-> <<>>]
  ELSE [status |-> "Ok",
        bookmark |-> <<[id |-> id, url |-> url, title |-> Trim(title),
                        bookmarked_date |-> now, author |-> <<>>, tags |-> <<>>,
                        publish_date |-> <<>>, notes |-> <<>>,
                        reading_status |-> "Unread", priority_rating |-> <<>>]>>]

\* Bookmark::new(url, title), with the id and the time it draws
BookmarkNew(url, title, id, now) ==
  IF Trim(title) = "" THEN [status |-> "EmptyTitle", bookmark |-> <<>>]
  ELSE IF ~UrlParses(url) THEN [status |-> "InvalidUrl", bookmark |-> <<>>]
  ELSE [status |-> "Ok",
        bookmark |-> <<[id |-> id, url |-> url, title |-> Trim(title),
                        bookmarked_date |-> now, author |-> <<>>, tags |-> <<>>,
                        publish_date |-> <<>>, notes |-> <<>>,
                        reading_status |-> "Unread", priority_rating |-> <<>>]>>]

\* Bookmark::with_tags
WithTags(b, tags) == [b EXCEPT !.tags = MapSeq(tags, ToLowercase)]

\* struct ExtractedMetadata
ExtractedMetadata(title, author, publish_date) ==
  [title |-> title, author |-> author, publish_date |-> publish_date]

\* tag lists a caller gives
TagArgs == {<<>>, <<"rust">>, <<"Rust", " web ">>, <<"  ", "cli">>}

\* the AddArgs a command line gives
AddArgs ==
  [url : {"https://a.example/", "not-a-url"},
   title : {<<>>, <<"A">>, <<"  ">>},
   author : {<<>>, <<"ann">>},
   tags : TagArgs,
   no_fetch : BOOLEAN]

\* what extract_metadata_with_config ends with: Err, or Ok(metadata)
Extractions ==
  {<<>>, <<ExtractedMetadata(<<"B">>, <<>>, <<3>>)>>,
   <<ExtractedMetadata(<<>>, <<"ann">>, <<>>)>>}

\* should_extract_metadata
ShouldExtractMetadata(a, metadata_enabled) ==
  IF a.no_fetch THEN FALSE
  ELSE IF a.title # <<>> /\ a.author # <<>> THEN FALSE
  ELSE metadata_enabled

\* create_bookmark_with_metadata
CreateBookmarkWithMetadata(a, extracted, id, now) ==
  LET title == IF a.title # <<>> THEN <<Trim(a.title[1])>>
               ELSE IF extracted # <<>> THEN MapOpt(extracted[1].title, Trim)
               ELSE <<>>
      made == BookmarkNew(a.url, title[1], id, now)
      author == IF a.author # <<>> THEN <<Trim(a.author[1])>>
                ELSE IF extracted # <<>> THEN extracted[1].author
                ELSE <<>>
      publish_date == IF extracted # <<>> THEN extracted[1].publish_date ELSE <<>>
      trimmed == SelectSeq(MapSeq(a.tags, Trim), LAMBDA t : t # "")
  IN IF title = <<>> \/ title = <<"">> THEN [status |-> "EmptyTitle", bookmark |-> <<>>]
     ELSE IF made.status # "Ok" THEN made
     ELSE [status |-> "Ok",
           bookmark |-> <<[made.bookmark[1] EXCEPT
                             !.author = author,
                             !.publish_date = publish_date,
                             !.tags = IF a.tags # <<>> THEN trimmed ELSE @]>>]

\* handle_add_command: the bookmark is built from the arguments and what
\* the extractor found, then repository.create
AddCommandOp(a, metadata_enabled, extraction, id, now) ==
  LET extracted == IF ShouldExtractMetadata(a, metadata_enabled) THEN extraction ELSE <<>>
      built == CreateBookmarkWithMetadata(a, extracted, id, now)
  IN IF built.status # "Ok"
     THEN ReturnNow(Returned("add", "-", built.status, <<>>, "-", <<>>))
     ELSE CreateOp(built.bookmark[1])

\* the add command; Uuid::new_v4 gives an id no bookmark has
AddCommand ==
  /\ rpc = "idle"
  /\ \E a \in AddArgs, metadata_enabled \in BOOLEAN, extraction \in Extractions,
        id \in Ids \ DOMAIN doc, now \in NoteTimes :
       AddCommandOp(a, metadata_enabled, extraction, id, now)
  /\ UNCHANGED <<syncVars, replicaVars, mainVars, tuiVars>>

\* a caller of the library: Bookmark::new(..)?.with_tags(tags), then create
CreateWithTags ==
  /\ rpc = "idle"
  /\ \E tags \in TagArgs, id \in Ids \ DOMAIN doc, now \in NoteTimes :
       CreateOp(WithTags(BookmarkNew("https://b.example/", "B", id, now).bookmark[1], tags))
  /\ UNCHANGED <<syncVars, replicaVars, mainVars, tuiVars>>

\* the list command: find_all(None)
ListAll ==
  /\ rpc = "idle"
  /\ ReturnNow(Returned("find_all", "-", "Ok", FindAll(doc, <<>>), "-", <<>>))
  /\ UNCHANGED <<syncVars, replicaVars, mainVars, tuiVars>>

\* the arguments that differ in what validation reads: url, title, and the
\* author and no_fetch that decide whether metadata is extracted
UntaggedArgs == {a \in AddArgs : a.tags = <<>>}

\* the add command without --tags
AddUntagged ==
  /\ rpc = "idle"
  /\ \E a \in UntaggedArgs, metadata_enabled \in BOOLEAN, extraction \in Extractions,
        id \in Ids \ DOMAIN doc, now \in NoteTimes :
       AddCommandOp(a, metadata_enabled, extraction, id, now)
  /\ UNCHANGED <<syncVars, replicaVars, mainVars, tuiVars>>

ValidateNext ==
  \/ AddUntagged
  \/ SaveWrite
  \/ SaveRename

IngestNext ==
  \/ AddCommand
  \/ CreateWithTags
  \/ ListAll
  \/ SaveWrite
  \/ SaveRename

\* ----------------------------------------------------------- delete command
\* str::len and str::starts_with
StrLen(t) == Len(Chars(t))
StartsWith(t, prefix) ==
  /\ StrLen(prefix) <= StrLen(t)
  /\ SubSeq(Chars(t), 1, StrLen(prefix)) = Chars(prefix)

\* variant: an input of any length is tried as a prefix
TriesPartialMatch_always(input) == TRUE

\* if self.args.id.len() <= 8
TriesPartialMatch(input) == StrLen(input) <= 8

\* variant: of several bookmarks the input is a prefix of, the first is taken
FindBookmarkById_first(d, input) ==
  LET all == FindAll(d, <<>>)
      exact == SelectSeq(all, LAMBDA b : b.id = input)
      matches == SelectSeq(all, LAMBDA b : StartsWith(b.id, input))
  IN IF exact # <<>> THEN [status |-> "Ok", out |-> <<exact[1]>>]
     ELSE IF TriesPartialMatch(input) /\ matches # <<>>
     THEN [status |-> "Ok", out |-> <<matches[1]>>]
     ELSE [status |-> "NotFound", out |-> <<>>]

\* DeleteCommand::find_bookmark_by_id
FindBookmarkById(d, input) ==
  LET all == FindAll(d, <<>>)
      exact == SelectSeq(all, LAMBDA b : b.id = input)
      matches == SelectSeq(all, LAMBDA b : StartsWith(b.id, input))
  IN IF exact # <<>> THEN [status |-> "Ok", out |-> <<exact[1]>>]
     ELSE IF TriesPartialMatch(input)
     THEN CASE Len(matches) = 0 -> [status |-> "NotFound", out |-> <<>>]
            [] Len(matches) = 1 -> [status |-> "Ok", out |-> <<matches[1]>>]
            [] OTHER -> [status |-> "InvalidId", out |-> <<>>]
     ELSE [status |-> "NotFound", out |-> <<>>]

\* DeleteCommand::execute: find_bookmark_by_id, then repository.delete
DeleteCommandOp(input) ==
  IF FindBookmarkById(doc, input).status # "Ok"
  THEN ReturnNow(Returned("delete_command", input, FindBookmarkById(doc, input).status,
                          <<>>, "-", <<>>))
  ELSE DeleteOp(FindBookmarkById(doc, input).out[1].id)

\* the ids a caller of the delete command types
DeleteInputs ==
  {"", "ab", "abc", "abcdef12", "abcdef123", "abcdef1234", "b", "b1", "zz"}

DeleteCommand ==
  /\ rpc = "idle"
  /\ \E input \in DeleteInputs : DeleteCommandOp(input)
  /\ UNCHANGED <<syncVars, replicaVars, mainVars, tuiVars>>

\* the bookmarks maps the delete command finds: ids of which one is a prefix
\* of another
DeleteIds == {"abc", "abcdef1234", "b1"}
DeleteDocs ==
  { [k \in K |-> BookmarkNode(Bookmark(k, ShapeSeq[1], <<>>, <<>>, <<>>))] :
      K \in SUBSET DeleteIds }

\* a new instance on a path that holds a snapshot written earlier
DeleteInit ==
  /\ MainAtRest
  /\ TuiAtRest
  /\ SyncAtRest
  /\ ReplicasAtRest
  /\ file \in {Snapshot(d) : d \in DeleteDocs}
  /\ doc = LoadFromFile(file).map
  /\ temp = NoFile
  /\ rpc = "idle"
  /\ call = NoCall
  /\ last = Returned("new", "-", "Ok", <<>>, "-", <<>>)
  /\ note_seq = 0
  /\ faults = 0
  /\ gone = {}

DeleteNext ==
  \/ DeleteCommand
  \/ SaveWrite
  \/ SaveRename

\* ------------------------------------------------------------------- main
\* handle_bookmark_error: the exit code of each error
ExitCodeOf(status) ==
  CASE status = "InvalidUrl" -> 2
    [] status = "NotFound" -> 3
    [] status = "EmptyTitle" -> 2
    [] status = "InvalidId" -> 3
    [] status = "MetadataExtraction" -> 4
    [] status = "SyncError" -> 5
    [] OTHER -> 6

\* SyncArgs { server: None, document_id: None, dry_run: false, timeout: None }
AutoSyncArgs == [document_id |-> <<>>, dry_run |-> FALSE, timeout |-> <<>>]

\* the arguments of the add command of a run
MainAddArgs ==
  {a \in AddArgs : /\ a.title = <<"A">>
                   /\ a.author = <<>>
                   /\ a.tags = <<>>
                   /\ a.no_fetch}

\* Commands::Add: handle_add_command
RunAdd ==
  /\ main_pc = "command"
  /\ rpc = "idle"
  /\ \E a \in MainAddArgs : AddCommandOp(a, FALSE, <<>>, "b2", 1)
  /\ command' = "add"
  /\ main_pc' = "ran"
  /\ UNCHANGED <<format, auto_sync_result, warnings, exit_code, syncVars, replicaVars,
                 tuiVars>>

\* Commands::Delete: handle_delete_command
RunDelete ==
  /\ main_pc = "command"
  /\ rpc = "idle"
  /\ \E input \in {"b1", "zz"} : DeleteCommandOp(input)
  /\ command' = "delete"
  /\ main_pc' = "ran"
  /\ UNCHANGED <<format, auto_sync_result, warnings, exit_code, syncVars, replicaVars,
                 tuiVars>>

\* Commands::List: handle_list_command
RunList ==
  /\ main_pc = "command"
  /\ rpc = "idle"
  /\ ReturnNow(Returned("find_all", "-", "Ok", FindAll(doc, <<>>), "-", <<>>))
  /\ command' = "list"
  /\ main_pc' = "ran"
  /\ UNCHANGED <<format, auto_sync_result, warnings, exit_code, syncVars, replicaVars,
                 tuiVars>>

\* the handler returned: if result.is_ok() of add and delete leads to
\* auto_sync_if_enabled; else handle_bookmark_error on Err, Ok(()) on Ok
CommandReturned ==
  /\ main_pc = "ran"
  /\ rpc = "idle"
  /\ IF last.status = "Ok" /\ command \in {"add", "delete"}
     THEN /\ main_pc' = "auto_sync"
          /\ UNCHANGED exit_code
     ELSE /\ main_pc' = "exited"
          /\ exit_code' = IF last.status = "Ok" THEN <<0>> ELSE <<ExitCodeOf(last.status)>>
  /\ UNCHANGED <<format, command, auto_sync_result, warnings, syncVars, repoVars, replicaVars, tuiVars>>

\* auto_sync_if_enabled up to the call of handle_sync_command
AutoSyncIfEnabled ==
  /\ main_pc = "auto_sync"
  /\ IF ~config.enabled \/ ~config.auto_sync
     THEN /\ auto_sync_result' = "Ok"
          /\ main_pc' = "exited"
          /\ exit_code' = <<0>>
          /\ UNCHANGED <<args, store, pc>>
     ELSE /\ args' = AutoSyncArgs
          /\ store' = DOMAIN doc
          /\ pc' = "start"
          /\ main_pc' = "syncing"
          /\ UNCHANGED <<auto_sync_result, exit_code>>
  /\ UNCHANGED <<format, command, warnings, config, clock, remote_peer_id,
                 changes_received, changes_sent, events, exit, result, response,
                 repoVars, replicaVars, last_frame_at, tuiVars>>

\* auto_sync_if_enabled after handle_sync_command: Ok(()) on Ok, the warning
\* and Ok(()) on Err; a panic unwinds through it and through main
AutoSyncReturned ==
  /\ main_pc = "syncing"
  /\ pc = "done"
  /\ main_pc' = "exited"
  /\ CASE result.status = "Ok" ->
            /\ auto_sync_result' = "Ok"
            /\ exit_code' = <<0>>
            /\ UNCHANGED warnings
       [] result.status = "Err" ->
            /\ auto_sync_result' = "Ok"
            /\ exit_code' = <<0>>
            /\ warnings' = IF format = "Human" THEN <<"Auto-sync failed">> ELSE <<>>
       [] OTHER ->
            /\ auto_sync_result' = "panic"
            /\ exit_code' = <<101>>  \* the status of a process ended by a panic
            /\ UNCHANGED warnings
  /\ UNCHANGED <<format, command, syncVars, repoVars, replicaVars, tuiVars>>

\* a process started on a store that holds one bookmark; the configuration
\* and the output format are what the user chose
MainInit ==
  /\ ReplicasAtRest
  /\ TuiAtRest
  /\ args = AutoSyncArgs
  /\ config \in [enabled : BOOLEAN, auto_sync : BOOLEAN, timeout_secs : {MaxTimeout}]
  /\ store = {}
  /\ pc = "off"
  /\ clock = 0
  /\ last_frame_at = 0
  /\ remote_peer_id = <<>>
  /\ changes_received = 0
  /\ changes_sent = 0
  /\ events = <<>>
  /\ exit = "-"
  /\ result = Running
  /\ response = <<>>
  /\ file = Snapshot([k \in {"b1"} |-> BookmarkNode(Bookmark(k, ShapeSeq[1], <<>>, <<>>, <<>>))])
  /\ doc = LoadFromFile(file).map
  /\ temp = NoFile
  /\ rpc = "idle"
  /\ call = NoCall
  /\ last = Returned("new", "-", "Ok", <<>>, "-", <<>>)
  /\ note_seq = 0
  /\ faults = MaxFaults
  /\ gone = {}
  /\ format \in {"Human", "Json"}
  /\ command = "-"
  /\ main_pc = "command"
  /\ auto_sync_result = "-"
  /\ warnings = <<>>
  /\ exit_code = <<>>

MainNext ==
  \/ RunAdd
  \/ RunDelete
  \/ RunList
  \/ SaveWrite
  \/ SaveRename
  \/ CommandReturned
  \/ AutoSyncIfEnabled
  \/ AutoSyncReturned
  \/ Next

\* ------------------------------------------------------ terminal interface
\* KeyEvent: code, the character of KeyCode::Char, KeyModifiers::CONTROL
Key(code, ch, ctrl) == [code |-> code, ch |-> ch, ctrl |-> ctrl]
CharKey(ch) == Key("Char", ch, FALSE)
CtrlC == Key("Char", "c", TRUE)

IsChar(key, chars) == key.code = "Char" /\ key.ch \in chars
IsCtrlC(key) == key.code = "Char" /\ key.ch = "c" /\ key.ctrl

\* the keys pressed in each mode
ListKeys ==
  {CharKey(c) : c \in {"q", "j", "k", "e", "/", "a", "d", "r", "c"}}
    \cup {Key(code, "-", FALSE) : code \in {"Down", "Up", "Enter", "Esc", "Tab"}}
    \cup {CtrlC}
DetailKeys ==
  {CharKey(c) : c \in {"q", "b", "c"}} \cup {Key("Esc", "-", FALSE), CtrlC}
SearchKeys ==
  {CharKey(c) : c \in QueryChars}
    \cup {Key(code, "-", FALSE) : code \in {"Enter", "Esc", "Backspace", "Tab"}}
    \cup {CtrlC}
AddKeys ==
  {CharKey(c) : c \in InputChars}
    \cup {Key(code, "-", FALSE) :
            code \in {"Enter", "Esc", "Backspace", "Tab"}}
    \cup {CtrlC}
DeleteKeys ==
  {CharKey(c) : c \in {"y", "Y", "n", "c"}}
    \cup {Key(code, "-", FALSE) : code \in {"Enter", "Esc"}}
    \cup {CtrlC}

\* the ids Uuid::new_v4 gives to the bookmarks the add form makes
NewIds == {"b2"}

\* str::trim on the characters typed
RECURSIVE TrimStart(_)
TrimStart(q) == IF q # <<>> /\ q[1] = " " THEN TrimStart(Tail(q)) ELSE q
RECURSIVE TrimEnd(_)
TrimEnd(q) ==
  IF q # <<>> /\ q[Len(q)] = " " THEN TrimEnd(SubSeq(q, 1, Len(q) - 1)) ELSE q
TrimChars(q) == TrimEnd(TrimStart(q))

\* TuiApp::new
TuiAppNew(d) ==
  LET found == FindAll(d, <<>>)
  IN TuiApp("List", found, IF found # <<>> THEN <<0>> ELSE <<>>,
            IF found # <<>> THEN <<0>> ELSE <<>>, <<>>, <<>>, <<>>, FALSE, <<>>, 0)

\* selected_bookmark: self.bookmarks.get(index)
SelectedBookmark(a) ==
  IF a.selected_index # <<>> /\ a.selected_index[1] < Len(a.bookmarks)
  THEN <<a.bookmarks[a.selected_index[1] + 1]>>
  ELSE <<>>

UnwrapOr(opt, default) == IF opt = <<>> THEN default ELSE opt[1]

\* navigate_up
NavigateUp(a) ==
  IF a.bookmarks = <<>> THEN a
  ELSE LET current == UnwrapOr(a.selected_index, 0)
           new_index == IF current = 0 THEN Len(a.bookmarks) - 1 ELSE current - 1
       IN [a EXCEPT !.selected_index = <<new_index>>, !.list_state = <<new_index>>]

\* navigate_down
NavigateDown(a) ==
  IF a.bookmarks = <<>> THEN a
  ELSE LET current == UnwrapOr(a.selected_index, 0)
           new_index == IF current >= Len(a.bookmarks) - 1 THEN 0 ELSE current + 1
       IN [a EXCEPT !.selected_index = <<new_index>>, !.list_state = <<new_index>>]

\* set_message
SetMessage(a, kind) == [a EXCEPT !.message = <<kind>>]

\* variant: the selection is left where it was
RefreshBookmarks_keepIndex(a, d) ==
  LET found == FindAll(d, a.filters)
  IN [a EXCEPT !.bookmarks = found]

\* refresh_bookmarks: find_all with the filters, then the selection is
\* cleared on an empty list and put on the first item when it is out of range
RefreshBookmarks(a, d) ==
  LET found == FindAll(d, a.filters)
  IN IF found = <<>>
     THEN [a EXCEPT !.bookmarks = found, !.selected_index = <<>>, !.list_state = <<>>]
     ELSE IF a.selected_index = <<>> \/ a.selected_index[1] >= Len(found)
     THEN [a EXCEPT !.bookmarks = found, !.selected_index = <<0>>, !.list_state = <<0>>]
     ELSE [a EXCEPT !.bookmarks = found]

\* apply_search
ApplySearch(a, d) ==
  LET filtered ==
        IF TrimChars(a.search_query) = <<>> THEN [a EXCEPT !.filters = <<>>]
        ELSE [a EXCEPT !.filters =
                <<BookmarkFilters(<<Str(a.search_query)>>, <<>>, <<>>, <<>>, <<>>,
                                  <<>>, <<>>, <<>>, <<>>, <<>>)>>]
  IN SetMessage(RefreshBookmarks(filtered, d), "Info")

\* clear_search
ClearSearch(a, d) ==
  SetMessage(RefreshBookmarks([a EXCEPT !.search_query = <<>>, !.filters = <<>>], d), "Info")

\* String::insert(idx, c), String::remove(idx)
InsertChar(q, idx, c) == SubSeq(q, 1, idx) \o <<c>> \o SubSeq(q, idx + 1, Len(q))
RemoveChar(q, idx) == SubSeq(q, 1, idx) \o SubSeq(q, idx + 2, Len(q))

\* add_char_to_input
AddCharToInput(a, c) ==
  [a EXCEPT !.input_buffer = InsertChar(@, a.cursor_position, c),
            !.cursor_position = @ + 1]

\* remove_char_from_input
RemoveCharFromInput(a) ==
  IF a.cursor_position > 0
  THEN [a EXCEPT !.input_buffer = RemoveChar(@, a.cursor_position - 1),
                 !.cursor_position = @ - 1]
  ELSE a

\* move_cursor_left, move_cursor_right
MoveCursorLeft(a) ==
  IF a.cursor_position > 0 THEN [a EXCEPT !.cursor_position = @ - 1] ELSE a
MoveCursorRight(a) ==
  IF a.cursor_position < Len(a.input_buffer) THEN [a EXCEPT !.cursor_position = @ + 1]
  ELSE a

\* clear_input
ClearInput(a) == [a EXCEPT !.input_buffer = <<>>, !.cursor_position = 0]

\* the first place at or after from where pat begins in q, 0 when there is none
FindSub(q, pat, from) ==
  LET at == {i \in from..(Len(q) - Len(pat) + 1) : SubSeq(q, i, i + Len(pat) - 1) = pat}
  IN IF at = {} THEN 0 ELSE CHOOSE i \in at : \A j \in at : i <= j

\* extract_domain: url.split("://").nth(1)?.split('/').next()
ExtractDomain(q) ==
  LET sep == <<":", "/", "/">>
      first == FindSub(q, sep, 1)
      rest == SubSeq(q, first + 3, Len(q))
      next == FindSub(rest, sep, 1)
      piece == IF next = 0 THEN rest ELSE SubSeq(rest, 1, next - 1)
      slash == FindSub(piece, <<"/">>, 1)
  IN IF first = 0 THEN <<>>
     ELSE <<IF slash = 0 THEN piece ELSE SubSeq(piece, 1, slash - 1)>>

\* add_bookmark up to repository.create: Bookmark::new(url, url), then the
\* title made of the domain
AddBookmark(url, id, now) ==
  LET made == BookmarkNew(Str(url), Str(url), id, now)
      domain == ExtractDomain(url)
  IN IF made.status # "Ok" \/ domain = <<>> THEN made
     ELSE [made EXCEPT !.bookmark[1].title = "Bookmark from " \o Str(domain[1])]

\* handle_list_mode_keys; opened tells whether open_url started the browser
ListModeKeys(a, key, d, opened) ==
  CASE IsChar(key, {"q", "Q"}) -> [a EXCEPT !.should_quit = TRUE]
    [] IsChar(key, {"j"}) \/ key.code = "Down" -> NavigateDown(a)
    [] IsChar(key, {"k"}) \/ key.code = "Up" -> NavigateUp(a)
    [] key.code = "Enter" ->
         IF SelectedBookmark(a) # <<>>
         THEN SetMessage(a, IF opened THEN "Success" ELSE "Error")
         ELSE a
    [] IsChar(key, {"e", "E"}) ->
         IF SelectedBookmark(a) # <<>> THEN [a EXCEPT !.mode = "Detail"] ELSE a
    [] IsChar(key, {"/"}) -> [a EXCEPT !.mode = "Search", !.search_query = <<>>]
    [] IsChar(key, {"a", "A"}) -> ClearInput([a EXCEPT !.mode = "Add"])
    [] IsChar(key, {"d", "D"}) ->
         IF SelectedBookmark(a) # <<>> THEN [a EXCEPT !.mode = "Delete"]
         ELSE SetMessage(a, "Error")
    [] IsChar(key, {"r", "R"}) -> SetMessage(RefreshBookmarks(a, d), "Success")
    [] IsCtrlC(key) -> [a EXCEPT !.should_quit = TRUE]
    [] key.code = "Esc" -> IF a.filters # <<>> THEN ClearSearch(a, d) ELSE a
    [] OTHER -> a

\* handle_detail_mode_keys
DetailModeKeys(a, key) ==
  CASE IsChar(key, {"q", "Q"}) -> [a EXCEPT !.should_quit = TRUE]
    [] key.code = "Esc" \/ IsChar(key, {"b"}) -> [a EXCEPT !.mode = "List"]
    [] IsCtrlC(key) -> [a EXCEPT !.should_quit = TRUE]
    [] OTHER -> a

\* handle_search_mode_keys
SearchModeKeys(a, key, d) ==
  CASE key.code = "Enter" -> [ApplySearch(a, d) EXCEPT !.mode = "List"]
    [] key.code = "Esc" -> [a EXCEPT !.mode = "List", !.search_query = <<>>]
    [] IsCtrlC(key) -> [a EXCEPT !.should_quit = TRUE]
    [] key.code = "Char" /\ ~IsCtrlC(key) ->
         [a EXCEPT !.search_query = Append(@, key.ch)]
    [] key.code = "Backspace" ->
         [a EXCEPT !.search_query = SubSeq(@, 1, Len(@) - 1)]
    [] OTHER -> a

\* handle_add_mode_keys, the arms that do not reach the repository
AddModeKeys(a, key) ==
  CASE key.code = "Esc" -> ClearInput([a EXCEPT !.mode = "List"])
    [] IsCtrlC(key) -> [a EXCEPT !.should_quit = TRUE]
    [] key.code = "Char" /\ ~IsCtrlC(key) -> AddCharToInput(a, key.ch)
    [] key.code = "Backspace" -> RemoveCharFromInput(a)
    [] key.code = "Left" -> MoveCursorLeft(a)
    [] key.code = "Right" -> MoveCursorRight(a)
    [] OTHER -> a

\* handle_add_mode_keys after add_bookmark returned
AfterAdd(a, status, d) ==
  IF status = "Ok"
  THEN ClearInput([SetMessage(RefreshBookmarks(a, d), "Success") EXCEPT !.mode = "List"])
  ELSE SetMessage(a, "Error")

\* handle_delete_mode_keys after repository.delete returned
AfterDelete(a, status, d) ==
  IF status = "Ok"
  THEN [SetMessage(RefreshBookmarks(a, d), "Success") EXCEPT !.mode = "List"]
  ELSE [SetMessage(a, "Error") EXCEPT !.mode = "List"]

\* run_app reads a key while no handler is running and should_quit is unset
ReadsKey(mode) ==
  /\ tui_pc = "keys"
  /\ rpc = "idle"
  /\ ~app.should_quit
  /\ app.mode = mode

HandleListModeKeys ==
  /\ ReadsKey("List")
  /\ \E key \in ListKeys, opened \in BOOLEAN : app' = ListModeKeys(app, key, doc, opened)
  /\ UNCHANGED <<tui_pc, syncVars, repoVars, replicaVars, mainVars>>

HandleDetailModeKeys ==
  /\ ReadsKey("Detail")
  /\ \E key \in DetailKeys : app' = DetailModeKeys(app, key)
  /\ UNCHANGED <<tui_pc, syncVars, repoVars, replicaVars, mainVars>>

HandleSearchModeKeys ==
  /\ ReadsKey("Search")
  /\ \E key \in SearchKeys :
       /\ key.code = "Char" => Len(app.search_query) < MaxQuery
       /\ app' = SearchModeKeys(app, key, doc)
  /\ UNCHANGED <<tui_pc, syncVars, repoVars, replicaVars, mainVars>>

\* handle_add_mode_keys; Enter on a text that is not empty calls add_bookmark,
\* which draws an id (Uuid::new_v4) and reads the time
HandleAddModeKeys ==
  /\ ReadsKey("Add")
  /\ \E key \in AddKeys :
       IF key.code = "Enter"
       THEN LET url == TrimChars(app.input_buffer)
            IN IF url = <<>>
               THEN /\ app' = SetMessage(app, "Error")
                    /\ UNCHANGED <<tui_pc, repoVars>>
               ELSE \E id \in NewIds \ DOMAIN doc, now \in NoteTimes :
                      LET made == AddBookmark(url, id, now)
                      IN IF made.status # "Ok"
                         THEN /\ app' = AfterAdd(app, made.status, doc)
                              /\ UNCHANGED <<tui_pc, repoVars>>
                         ELSE /\ CreateOp(made.bookmark[1])
                              /\ tui_pc' = "add"
                              /\ UNCHANGED app
       ELSE /\ key.code = "Char" => Len(app.input_buffer) < MaxInput
            /\ app' = AddModeKeys(app, key)
            /\ UNCHANGED <<tui_pc, repoVars>>
  /\ UNCHANGED <<syncVars, replicaVars, mainVars>>

\* repository.create returned to handle_add_mode_keys
AddReturned ==
  /\ tui_pc = "add"
  /\ rpc = "idle"
  /\ app' = AfterAdd(app, last.status, doc)
  /\ tui_pc' = "keys"
  /\ UNCHANGED <<syncVars, repoVars, replicaVars, mainVars>>

\* variant: every key but Ctrl-C confirms
DeleteModeKeys_anyKey(key) ==
  IF ~IsCtrlC(key)
  THEN IF SelectedBookmark(app) # <<>>
       THEN /\ DeleteOp(SelectedBookmark(app)[1].id)
            /\ IF BookmarkExists(doc, SelectedBookmark(app)[1].id)
               THEN /\ tui_pc' = "delete"
                    /\ UNCHANGED app
               ELSE /\ app' = AfterDelete(app, "NotFound", doc)
                    /\ UNCHANGED tui_pc
       ELSE /\ app' = [app EXCEPT !.mode = "List"]
            /\ UNCHANGED <<tui_pc, repoVars>>
  ELSE /\ app' = [app EXCEPT !.should_quit = TRUE]
       /\ UNCHANGED <<tui_pc, repoVars>>

\* handle_delete_mode_keys: 'y' and 'Y' call repository.delete with the id of
\* the selected bookmark, Ctrl-C quits, any other key goes back to the list
DeleteModeKeys(key) ==
  IF IsChar(key, {"y", "Y"})
  THEN IF SelectedBookmark(app) # <<>>
       THEN /\ DeleteOp(SelectedBookmark(app)[1].id)
            /\ IF BookmarkExists(doc, SelectedBookmark(app)[1].id)
               THEN /\ tui_pc' = "delete"
                    /\ UNCHANGED app
               ELSE /\ app' = AfterDelete(app, "NotFound", doc)
                    /\ UNCHANGED tui_pc
       ELSE /\ app' = [app EXCEPT !.mode = "List"]
            /\ UNCHANGED <<tui_pc, repoVars>>
  ELSE IF IsCtrlC(key)
  THEN /\ app' = [app EXCEPT !.should_quit = TRUE]
       /\ UNCHANGED <<tui_pc, repoVars>>
  ELSE /\ app' = [app EXCEPT !.mode = "List"]
       /\ UNCHANGED <<tui_pc, repoVars>>

HandleDeleteModeKeys ==
  /\ ReadsKey("Delete")
  /\ \E key \in DeleteKeys : DeleteModeKeys(key)
  /\ UNCHANGED <<syncVars, replicaVars, mainVars>>

\* repository.delete returned to handle_delete_mode_keys
DeleteReturned ==
  /\ tui_pc = "delete"
  /\ rpc = "idle"
  /\ app' = AfterDelete(app, last.status, doc)
  /\ tui_pc' = "keys"
  /\ UNCHANGED <<syncVars, repoVars, replicaVars, mainVars>>

\* update_message: the message is dropped three seconds after it was set
UpdateMessage ==
  /\ tui_pc = "keys"
  /\ rpc = "idle"
  /\ ~app.should_quit
  /\ app.message # <<>>
  /\ app' = [app EXCEPT !.message = <<>>]
  /\ UNCHANGED <<tui_pc, syncVars, repoVars, replicaVars, mainVars>>

\* the bookmarks maps the file holds when the interface starts
TuiDocs ==
  { [k \in {b.id : b \in B} |-> BookmarkNode(CHOOSE b \in B : b.id = k)] :
      B \in {B \in SUBSET Bookmarks : \A b, c \in B : b.id = c.id => b = c} }

\* run_tui on a path that holds a snapshot written earlier, after TuiApp::new;
\* the storage fails at most once
TuiInit ==
  /\ MainAtRest
  /\ SyncAtRest
  /\ ReplicasAtRest
  /\ file \in {Snapshot(d) : d \in TuiDocs}
  /\ doc = LoadFromFile(file).map
  /\ temp = NoFile
  /\ rpc = "idle"
  /\ call = NoCall
  /\ last = Returned("new", "-", "Ok", <<>>, "-", <<>>)
  /\ note_seq = 0
  /\ faults = MaxFaults - 1
  /\ gone = {}
  /\ app = TuiAppNew(doc)
  /\ tui_pc = "keys"

TuiNext ==
  \/ HandleListModeKeys
  \/ HandleDetailModeKeys
  \/ HandleSearchModeKeys
  \/ HandleAddModeKeys
  \/ HandleDeleteModeKeys
  \/ AddReturned
  \/ DeleteReturned
  \/ UpdateMessage
  \/ SaveWrite
  \/ SaveRename

\* ------------------------------------------------- repository properties
Mutating == {"create", "update", "delete", "add_note", "remove_note"}

Range(s) == {s[i] : i \in 1..Len(s)}

\* what find_all(None) of an instance opened on the file would return
ReopenedAll == FindAll(LoadFromFile(file).map, <<>>)

\* C11: a find_by_id(b.id) that follows create(b) returns Ok with a bookmark
\* equal to b in every field, tags and notes in the same order; this holds
\* from the moment create has returned
C11_RoundTrip ==
  /\ (rpc = "idle" /\ last.op = "create" /\ last.status = "Ok")
       => FindById(doc, call.id) = [status |-> "Ok", out |-> call.arg]
  /\ (rpc = "idle" /\ call.op = "create" /\ last.op = "find_by_id"
      /\ last.id = call.id)
       => (last.status = "Ok" /\ last.out = call.arg)

\* a bookmark with author and priority but no publish date, two tags and two
\* notes was created and then found by its id
C11_Witness ==
  /\ rpc = "idle"
  /\ call.op = "create"
  /\ last.op = "find_by_id"
  /\ last.id = call.id
  /\ call.arg[1].author # <<>>
  /\ call.arg[1].publish_date = <<>>
  /\ call.arg[1].priority_rating # <<>>
  /\ call.arg[1].reading_status = "Completed"
  /\ Len(call.arg[1].tags) = 2
  /\ Len(call.arg[1].notes) = 2

\* C12: once a mutating operation has returned Ok, an instance opened on the
\* same path loads and has the same find_all result as this instance
C12_ReopenSame ==
  (rpc = "idle" /\ last.op \in Mutating /\ last.status = "Ok")
    => (LoadFromFile(file).ok /\ ReopenedAll = FindAll(doc, <<>>))

\* a note was removed with success from a store of two bookmarks after a
\* storage failure earlier in the run
C12_Witness ==
  /\ rpc = "idle"
  /\ last.op = "remove_note"
  /\ last.status = "Ok"
  /\ faults = 1
  /\ Len(FindAll(doc, <<>>)) = 2

\* C13: an id deleted with success, and not created since, is absent: in
\* this instance find_by_id and a further delete find nothing, and an
\* instance opened on the path does not find it either
C13_DeletedStaysDeleted ==
  /\ [](\A id \in gone :
         /\ rpc # "closed" => FindById(doc, id).status = "NotFound"
         /\ LoadFromFile(file).ok
         /\ FindById(LoadFromFile(file).map, id).status = "NotFound")
  /\ [][\A id \in gone :
          (rpc = "idle" /\ DeleteOp(id))
            => (last'.op = "delete" /\ last'.id = id /\ last'.status = "NotFound"
                /\ rpc' = "idle")]_vars

\* a second delete of a deleted id has returned NotFound while another
\* bookmark is stored
C13_Witness ==
  /\ rpc = "idle"
  /\ last.op = "delete"
  /\ last.status = "NotFound"
  /\ last.id \in gone
  /\ doc # <<>>

\* C14: update(b) for an id that is not stored returns NotFound at once and
\* changes neither the find_all result nor the file on disk
C14_UpdateMissing ==
  [][\A b \in Bookmarks :
       (rpc = "idle" /\ ~BookmarkExists(doc, b.id) /\ UpdateOp(b))
         => /\ last'.op = "update"
            /\ last'.status = "NotFound"
            /\ rpc' = "idle"
            /\ FindAll(doc', <<>>) = FindAll(doc, <<>>)
            /\ file' = file
            /\ temp' = temp]_vars

\* update of an id that is not stored has returned NotFound on a store that
\* holds another bookmark and has a snapshot on disk
C14_Witness ==
  /\ rpc = "idle"
  /\ last.op = "update"
  /\ last.status = "NotFound"
  /\ doc # <<>>
  /\ file.kind = "snapshot"

C16_UnionSemantics ==
  [][\A b \in Bookmarks :
       (rpc = "idle" /\ rpc' = "write" /\ call'.op = "update"
        /\ BookmarkExists(doc, b.id) /\ UpdateOp(b))
         => /\ Range(GetTagsFromList(doc[b.id])) \cup Range(b.tags)
                 \subseteq Range(GetTagsFromList(doc'[b.id]))
            /\ Range(GetNotesFromList(doc[b.id])) \cup Range(b.notes)
                 \subseteq Range(GetNotesFromList(doc'[b.id]))]_vars

\* the notes find_by_id shows for a stored bookmark
NotesOf(d, id) == GetNotesFromList(d[id])

\* C17: add_note puts the new note after all notes of the bookmark and
\* returns its id; remove_note of an id in the list removes exactly the note
\* with that id and keeps the others in their order
C17_NotesSequence ==
  /\ [][\A id \in Ids, content \in NoteContents, now \in NoteTimes :
          (rpc = "idle" /\ rpc' = "write" /\ call'.op = "add_note"
           /\ note_seq < MaxNotes /\ BookmarkExists(doc, id)
           /\ AddNoteOp(id, content, now))
            => /\ Len(NotesOf(doc', id)) = Len(NotesOf(doc, id)) + 1
               /\ SubSeq(NotesOf(doc', id), 1, Len(NotesOf(doc, id))) = NotesOf(doc, id)
               /\ NotesOf(doc', id)[Len(NotesOf(doc', id))].id = call'.note
               /\ NotesOf(doc', id)[Len(NotesOf(doc', id))].content = content
               /\ \A n \in Range(NotesOf(doc, id)) : n.id # call'.note]_vars
  /\ [][\A id \in Ids, note_id \in NoteIdsAsked :
          (rpc = "idle" /\ rpc' = "write" /\ call'.op = "remove_note"
           /\ BookmarkExists(doc, id)
           /\ (\E n \in Range(NotesOf(doc, id)) : n.id = note_id)
           /\ RemoveNoteOp(id, note_id))
            => NotesOf(doc', id) =
                 SelectSeq(NotesOf(doc, id), LAMBDA n : n.id # note_id)]_vars
  /\ []((rpc = "idle" /\ last.op = "add_note" /\ last.status = "Ok")
          => /\ last.note = call.note
             /\ NotesOf(doc, last.id)[Len(NotesOf(doc, last.id))].id = last.note)

\* add_note twice, then remove_note of the first id: exactly the second note
\* is left
C17_Witness ==
  /\ rpc = "idle"
  /\ last.op = "remove_note"
  /\ last.status = "Ok"
  /\ call.note = FreshNoteIds[1]
  /\ NotesOf(doc, last.id) = <<Note(FreshNoteIds[2], "third", 4)>>

\* C18: the file at file_path is never a partly written one; it changes only
\* by the rename, to the complete snapshot of the document being saved; a
\* crash at any step leaves it as it was, and loadable
C18_AtomicSnapshot ==
  /\ [](file.kind # "partial" /\ LoadFromFile(file).ok)
  /\ [][file' # file
          => (rpc = "rename" /\ file' = Snapshot(doc) /\ file' = temp)]_vars
  /\ [][(rpc # "closed" /\ rpc' = "closed") => file' = file]_vars

\* the process died during the temp write: part of the bytes is in the temp
\* file, the earlier snapshot is still at file_path
C18_Witness ==
  /\ rpc = "closed"
  /\ last.op = "crash"
  /\ temp = PartialFile
  /\ file.kind = "snapshot"
  /\ file.map # <<>>

\* the tags of a list, compared without case
LowerSet(tags) == {ToLowercase(t) : t \in Range(tags)}

\* C20: find_by_tags(T) and find_all with filters.tags = T return, in store
\* order, exactly the bookmarks that hold every tag of T when case is set
\* aside
C20_TagFilter ==
  (rpc = "idle" /\ last.op \in {"find_by_tags", "find_all"} /\ last.tags # <<>>)
    => last.out = SelectSeq(FindAll(doc, <<>>),
                            LAMBDA b : LowerSet(last.tags[1]) \subseteq LowerSet(b.tags))

\* find_all with tags RUST, web on a store of two bookmarks: the one tagged
\* Rust, web is returned, the one tagged cli, Web is not
C20_Witness ==
  /\ rpc = "idle"
  /\ last.op = "find_all"
  /\ last.tags = << <<"RUST", "web">> >>
  /\ Len(FindAll(doc, <<>>)) = 2
  /\ Len(last.out) = 1
  /\ last.out[1].tags = <<"Rust", "web">>
  /\ \E b \in Range(FindAll(doc, <<>>)) : b.tags = <<"cli", "Web">>

\* C26: every tag of every bookmark that entered the store through
\* Bookmark::with_tags or the add command is lowercase, so every tag
\* find_all returns is lowercase.
C26_TagsLowercase ==
  \A i \in 1..Len(FindAll(doc, <<>>)) :
    \A j \in 1..Len(FindAll(doc, <<>>)[i].tags) :
      FindAll(doc, <<>>)[i].tags[j] = ToLowercase(FindAll(doc, <<>>)[i].tags[j])

\* C27: opening a path that holds no file or an empty file succeeds with an
\* empty store and does not create or change the file; a file first appears
\* at the path when a mutating operation has returned Ok.
C27_OpenStartsFresh ==
  /\ [][(Open /\ file.kind \in {"absent", "empty"}) =>
          /\ last'.status = "Ok"
          /\ rpc' = "idle"
          /\ FindAll(doc', <<>>) = <<>>
          /\ file' = file]_vars
  /\ [][(file.kind = "absent" /\ file'.kind # "absent") =>
          /\ last'.op \in Mutating
          /\ last'.status = "Ok"
          /\ file' = Snapshot(doc)]_vars

\* the first save was interrupted, the path still holds no file, and the
\* store was opened again
C27_Witness ==
  /\ last.op = "new"
  /\ last.status = "Ok"
  /\ rpc = "idle"
  /\ faults = 1
  /\ file.kind = "absent"
  /\ temp = PartialFile
  /\ doc = <<>>

\* the stored ids the input is a prefix of
PrefixMatches(d, input) == {k \in DOMAIN d : StartsWith(k, input)}

\* C29: the delete command with an input of at most 8 characters that equals
\* no id and is a prefix of two or more ids returns InvalidId, and with an
\* input that matches no id returns NotFound; in both cases nothing is
\* deleted.
C29_AmbiguousOrMissing ==
  [][\A input \in DeleteInputs :
       (rpc = "idle" /\ input \notin DOMAIN doc /\ DeleteCommandOp(input)) =>
         /\ (StrLen(input) <= 8 /\ Cardinality(PrefixMatches(doc, input)) >= 2) =>
              (last'.status = "InvalidId" /\ doc' = doc /\ file' = file /\ rpc' = "idle")
         /\ PrefixMatches(doc, input) = {} =>
              (last'.status = "NotFound" /\ doc' = doc /\ file' = file /\ rpc' = "idle")]_vars

\* the input "ab" was refused as ambiguous on a store holding two ids that
\* begin with it
C29_Witness ==
  /\ last.op = "delete_command"
  /\ last.id = "ab"
  /\ last.status = "InvalidId"
  /\ {"abc", "abcdef1234"} \subseteq DOMAIN doc
  /\ file = Snapshot(doc)

\* C30: the delete command removes the bookmark whose id equals the input,
\* before any prefix match; else, for an input of at most 8 characters, the
\* one bookmark whose id begins with it; an input of more than 8 characters
\* is never matched as a prefix.  Every other bookmark remains.
C30_DeleteChoice ==
  [][\A input \in DeleteInputs :
       (rpc = "idle" /\ DeleteCommandOp(input)) =>
         /\ input \in DOMAIN doc => doc' = DelKey(doc, input)
         /\ (input \notin DOMAIN doc /\ StrLen(input) <= 8
               /\ Cardinality(PrefixMatches(doc, input)) = 1) =>
              \E k \in PrefixMatches(doc, input) : doc' = DelKey(doc, k)
         /\ (input \notin DOMAIN doc /\ StrLen(input) > 8) =>
              (doc' = doc /\ last'.status = "NotFound")
         /\ \A k \in DOMAIN doc : (k \in DOMAIN doc' /\ doc'[k] = doc[k])
                                    \/ (k \notin DOMAIN doc' /\ DOMAIN doc' = DOMAIN doc \ {k})]_vars

\* "abc" was deleted and saved while the id "abcdef1234", of which it is a
\* prefix, remains
C30_Witness ==
  /\ last.op = "delete"
  /\ last.id = "abc"
  /\ last.status = "Ok"
  /\ DOMAIN doc = {"abcdef1234", "b1"}
  /\ file = Snapshot(doc)

\* C28 as stated: auto_sync_if_enabled returns Ok in every case; a sync
\* session is started only with sync.enabled and sync.auto_sync set and after
\* an add or delete command that succeeded and whose change is in the file;
\* a sync that failed left a warning (read here for the Human format, the
\* one in which the warning is written) and did not fail the run.
C28_AutoSyncNeverFails ==
  /\ (main_pc = "exited" /\ command \in {"add", "delete"} /\ last.status = "Ok") =>
       (auto_sync_result = "Ok" /\ exit_code = <<0>>)
  /\ main_pc = "syncing" =>
       /\ config.enabled /\ config.auto_sync
       /\ command \in {"add", "delete"}
       /\ last.status = "Ok"
       /\ file = Snapshot(doc)
  /\ (main_pc = "exited" /\ pc = "done" /\ result.status = "Err" /\ format = "Human") =>
       warnings # <<>>

\* ------------------------------------------------------- filter properties
\* find_all(Some(filters)) has returned
FilteredRead == last.op = "find_all" /\ call.op = "find_all" /\ call.arg # <<>>

\* find_all(None) on the document: every bookmark that decodes, in key order
Decoded(d) == FindAll(d, <<>>)

\* C21: with a priority range set, find_all returns no bookmark without a
\* rating, (1, 5) included, and among the bookmarks that pass the other
\* filters it returns exactly those with min <= rating <= max.
C21_PriorityRange ==
  (FilteredRead /\ call.arg[1].priority_range # <<>>) =>
    LET f == call.arg[1]
        range == f.priority_range[1]
        others == FindAll(doc, <<[f EXCEPT !.priority_range = <<>>]>>)
        rated(b) == /\ b.priority_rating # <<>>
                    /\ range[1] <= b.priority_rating[1]
                    /\ b.priority_rating[1] <= range[2]
    IN /\ \A i \in 1..Len(last.out) : rated(last.out[i])
       /\ Range(last.out) \subseteq Range(others)
       /\ \A i \in 1..Len(others) : rated(others[i]) => others[i] \in Range(last.out)

\* the range (1, 5) alone has kept a rated bookmark and dropped an unrated one
C21_Witness ==
  /\ FilteredRead
  /\ call.arg[1] = Filters(<<>>, <<>>, << <<1, 5>> >>)
  /\ Len(last.out) = 1
  /\ \E b \in Range(Decoded(doc)) : b.priority_rating = <<>> /\ b \notin Range(last.out)

\* no date bound and no sort key is set in the filters
ContentOnly(f) ==
  /\ f.bookmarked_since = <<>> /\ f.bookmarked_until = <<>>
  /\ f.published_since = <<>> /\ f.published_until = <<>>
  /\ f.sort_by = <<>>

\* the bookmark satisfies each of the text, tags, status and priority
\* filters that is present
PassesAll(b, f) ==
  /\ f.text_query # <<>> => TextMatches(b, TextToLowercase(f.text_query[1]))
  /\ f.tags # <<>> => HasAllTags(b, MapSeq(f.tags[1], ToLowercase))
  /\ f.reading_status # <<>> => b.reading_status = f.reading_status[1]
  /\ f.priority_range # <<>> => InPriorityRange(b, f.priority_range[1])

C23_DateBounds ==
  FilteredRead =>
    \A i \in 1..Len(last.out) :
      LET b == last.out[i]
          f == call.arg[1]
      IN /\ f.bookmarked_since # <<>> => b.bookmarked_date >= f.bookmarked_since[1]
         /\ f.bookmarked_until # <<>> => b.bookmarked_date <= f.bookmarked_until[1]
         /\ f.published_since # <<>> =>
              (b.publish_date # <<>> /\ b.publish_date[1] >= f.published_since[1])
         /\ f.published_until # <<>> =>
              (b.publish_date # <<>> /\ b.publish_date[1] <= f.published_until[1])

\* the titles in use, in the order of String::cmp
TitleOrder == <<"A", "B", "C">>

\* the sort key of a bookmark, as an Option of a rank
SortKey(b, sort_by) ==
  CASE sort_by = "BookmarkedDate" -> <<b.bookmarked_date>>
    [] sort_by = "PublishDate" -> b.publish_date
    [] sort_by = "Title" -> <<CHOOSE i \in 1..Len(TitleOrder) : TitleOrder[i] = b.title>>
    [] sort_by = "Priority" -> b.priority_rating

\* C24: with sort_by set, find_all returns the bookmarks ordered by that key
\* in the direction of sort_order (compared where both bookmarks have the
\* key).
C24_Sorted ==
  (FilteredRead /\ call.arg[1].sort_by # <<>> /\ call.arg[1].sort_order # <<>>) =>
    \A i, j \in 1..Len(last.out) :
      LET ki == SortKey(last.out[i], call.arg[1].sort_by[1])
          kj == SortKey(last.out[j], call.arg[1].sort_by[1])
      IN (i < j /\ ki # <<>> /\ kj # <<>>) =>
           IF call.arg[1].sort_order[1] = "Ascending" THEN ki[1] <= kj[1]
           ELSE ki[1] >= kj[1]

\* C25: find_all returns Ok with every entry that decodes, in key order,
\* whatever the other entries are: an entry that does not decode is skipped
\* and nothing else is dropped.
C25_CorruptionIsolation ==
  (last.op = "find_all" /\ call.arg = <<>>) =>
    /\ last.status = "Ok"
    /\ \A k \in DOMAIN doc :
         BookmarkFromAutomerge(doc[k]) # <<>> =>
           BookmarkFromAutomerge(doc[k])[1] \in Range(last.out)
    /\ Len(last.out) = Cardinality({k \in DOMAIN doc : BookmarkFromAutomerge(doc[k]) # <<>>})
    /\ \A i, j \in 1..Len(last.out) :
         i < j => \E m, n \in 1..Len(IdOrder) :
                    /\ m < n
                    /\ IdOrder[m] \in DOMAIN doc
                    /\ IdOrder[n] \in DOMAIN doc
                    /\ BookmarkFromAutomerge(doc[IdOrder[m]]) = <<last.out[i]>>
                    /\ BookmarkFromAutomerge(doc[IdOrder[n]]) = <<last.out[j]>>

\* the first entry lacks its title and the second was returned
C25_Witness ==
  /\ last.op = "find_all"
  /\ call.op = "find_all"
  /\ call.arg = <<>>
  /\ DOMAIN doc = Ids
  /\ doc["b1"].title = <<>>
  /\ Len(last.out) = 1
  /\ last.out[1].id = "b2"

\* ================================================================== replicas
\* Two replicas of the document.  Each holds the changes it has made or
\* applied; what a replica's repository shows is computed from them.  Ids
\* are made by Bookmark::new (Uuid::new_v4), so no id is created twice.

\* changes made in one run, on both replicas together
MaxOps == 4

\* a change of the "bookmarks" map: put_object of a key, a put inside the
\* bookmark's object (edit), or the deletion of a key.  over names the puts
\* of the key this change replaces, deps every change its maker had seen.
Change(n, kind, key, over, deps) ==
  [n |-> n, kind |-> kind, key |-> key, over |-> over, deps |-> deps]

Seen(h) == {c.n : c \in h}

\* the puts of a key that no change held has replaced or deleted
Live(h, key) ==
  {c \in h : c.kind = "put" /\ c.key = key /\ \A d \in h : c.n \notin d.over}

\* bookmark_exists / doc.keys: the ids a replica's repository shows
Present(h) == {c.key : c \in {p \in h : Live(h, p.key) # {}}}

\* add_bookmark_to_automerge: put_object(&self.bookmarks_map, &bookmark.id, ..)
DocPutObject(h, key, n) ==
  h \cup {Change(n, "put", key, Seen(Live(h, key)), Seen(h))}

\* update_bookmark_fields: puts inside the bookmark's object
DocEdit(h, key, n) == h \cup {Change(n, "edit", key, {}, Seen(h))}

\* variant: the entry is dropped from the document without a recorded deletion
DocDelete_forget(h, key, n) == {c \in h : c.key # key}

\* delete: self.doc.delete(&self.bookmarks_map, id), a recorded deletion of
\* the key as this replica sees it
DocDelete(h, key, n) ==
  h \cup {Change(n, "del", key, Seen(Live(h, key)), Seen(h))}

\* changes of another replica that can be applied to h: each comes with
\* every change it was made after
Deliverable(h, changes) ==
  changes # {} /\ \A c \in changes : c.deps \subseteq Seen(h \cup changes)

\* create on one replica, with a new id
ReplicaCreate ==
  /\ op_seq < MaxOps
  /\ \E r \in Replicas :
       replicas' = [replicas EXCEPT ![r] = DocPutObject(@, op_seq + 1, op_seq + 1)]
  /\ op_seq' = op_seq + 1
  /\ UNCHANGED <<deleted, syncVars, repoVars, mainVars, tuiVars>>

\* update on one replica, of a bookmark it shows
ReplicaUpdate ==
  /\ op_seq < MaxOps
  /\ \E r \in Replicas :
       \E id \in Present(replicas[r]) :
         replicas' = [replicas EXCEPT ![r] = DocEdit(@, id, op_seq + 1)]
  /\ op_seq' = op_seq + 1
  /\ UNCHANGED <<deleted, syncVars, repoVars, mainVars, tuiVars>>

\* delete on one replica: NotFound for an id it does not show
ReplicaDelete ==
  /\ op_seq < MaxOps
  /\ \E r \in Replicas :
       \E id \in 1..op_seq :
         IF id \notin Present(replicas[r])
         THEN UNCHANGED <<replicas, op_seq, deleted>>
         ELSE /\ replicas' = [replicas EXCEPT ![r] = DocDelete(@, id, op_seq + 1)]
              /\ op_seq' = op_seq + 1
              /\ deleted' = deleted \cup {<<r, id>>}
  /\ UNCHANGED <<syncVars, repoVars, mainVars, tuiVars>>

\* a sync message of another replica is applied: it carries changes the
\* sender holds, and the document takes them in
ReplicaSync ==
  /\ \E r \in Replicas :
       \E s \in Replicas \ {r} :
         \E changes \in SUBSET (replicas[s] \ replicas[r]) :
           /\ Deliverable(replicas[r], changes)
           /\ replicas' = [replicas EXCEPT ![r] = @ \cup changes]
  /\ UNCHANGED <<op_seq, deleted, syncVars, repoVars, mainVars, tuiVars>>

\* two replicas of one empty document, no sync session, no single instance
ReplicaInit ==
  /\ MainAtRest
  /\ TuiAtRest
  /\ SyncAtRest
  /\ RepoAtRest
  /\ ReplicasAtRest

ReplicaNext ==
  \/ ReplicaCreate
  \/ ReplicaUpdate
  \/ ReplicaDelete
  \/ ReplicaSync

\* C19: a bookmark deleted on a replica never shows there again, whatever is
\* merged in afterwards, and does not show on any replica that has applied
\* all the changes the deleting replica holds
C19_DeletionPropagates ==
  \A d \in deleted :
    /\ d[2] \notin Present(replicas[d[1]])
    /\ \A q \in Replicas :
         replicas[d[1]] \subseteq replicas[q] => d[2] \notin Present(replicas[q])

\* a bookmark both replicas showed was deleted on one while the other, not
\* having seen the deletion, updated it; all changes have been exchanged
C19_Witness ==
  \E d \in deleted :
    /\ \A r, q \in Replicas : replicas[r] = replicas[q]
    /\ \E e \in replicas[d[1]] :
         /\ e.kind = "edit"
         /\ e.key = d[2]
         /\ \E x \in replicas[d[1]] :
              /\ x.kind = "del"
              /\ x.key = d[2]
              /\ x.n \notin e.deps
              /\ e.n \notin x.deps

\* --------------------------------------------------- ingestion properties
\* the title given on the command line is empty or whitespace
BlankTitle(a) == a.title # <<>> /\ Trim(a.title[1]) = ""

\* C31: the add command given a whitespace-only title returns EmptyTitle,
\* given a malformed url returns InvalidUrl (EmptyTitle when no title is at
\* hand either), and in both cases document, file and find_all are as before
\* and no save is started.
C31_ValidationFirst ==
  [][\A a \in UntaggedArgs, metadata_enabled \in BOOLEAN, extraction \in Extractions,
        id \in Ids \ DOMAIN doc, now \in NoteTimes :
       (/\ rpc = "idle"
        /\ BlankTitle(a) \/ ~UrlParses(a.url)
        /\ AddCommandOp(a, metadata_enabled, extraction, id, now)) =>
         /\ last'.op = "add"
         /\ BlankTitle(a) => last'.status = "EmptyTitle"
         /\ ~BlankTitle(a) => last'.status \in {"InvalidUrl", "EmptyTitle"}
         /\ (a.title # <<>> /\ ~BlankTitle(a)) => last'.status = "InvalidUrl"
         /\ doc' = doc /\ file' = file /\ temp' = temp /\ rpc' = "idle"
         /\ FindAll(doc', <<>>) = FindAll(doc, <<>>)]_vars

\* a malformed url was refused on a store that holds a bookmark
C31_Witness ==
  /\ last.op = "add"
  /\ last.status = "InvalidUrl"
  /\ doc # <<>>
  /\ file = Snapshot(doc)
  /\ rpc = "idle"

\* ---------------------------------------------------- NotFound properties
\* the operation returned NotFound at once: nothing was changed in memory or
\* on disk, and save() was not entered
RefusedNotFound(op, id) ==
  /\ last' = Returned(op, id, "NotFound", <<>>, "-", <<>>)
  /\ doc' = doc
  /\ file' = file
  /\ temp' = temp
  /\ note_seq' = note_seq
  /\ rpc' = "idle"

\* the note ids in the notes list of a stored bookmark
StoredNoteIds(id) ==
  IF doc[id].notes = <<>> THEN {}
  ELSE {doc[id].notes[1][i].id[1] :
          i \in {j \in 1..Len(doc[id].notes[1]) : doc[id].notes[1][j].id # <<>>}}

\* C32: delete of an absent id, add_note on an absent bookmark id, and
\* remove_note with an absent bookmark id or an absent note id return
\* NotFound, leave the document and the files unchanged, and do not save.
C32_NotFoundNoWrite ==
  [][/\ \A id \in Ids :
          (rpc = "idle" /\ id \notin DOMAIN doc /\ DeleteOp(id)) =>
            RefusedNotFound("delete", id)
     /\ \A id \in Ids, content \in NoteContents, now \in NoteTimes :
          (rpc = "idle" /\ id \notin DOMAIN doc /\ AddNoteOp(id, content, now)) =>
            RefusedNotFound("add_note", id)
     /\ \A id \in Ids, note_id \in NoteIdsAsked :
          (/\ rpc = "idle"
           /\ id \notin DOMAIN doc \/ note_id \notin StoredNoteIds(id)
           /\ RemoveNoteOp(id, note_id)) =>
            RefusedNotFound("remove_note", id)]_vars

\* remove_note was refused for a note id that a bookmark with notes does
\* not hold
C32_Witness ==
  /\ last.op = "remove_note"
  /\ last.status = "NotFound"
  /\ last.id \in DOMAIN doc
  /\ StoredNoteIds(last.id) # {}
  /\ file = Snapshot(doc)

\* ------------------------------------------------- durability properties
\* C33 as stated: whenever a mutating operation has returned, with Ok or
\* with a storage error, the document decoded from the file equals the
\* document in memory, and find_all shows what a reopen would show.
C33_MemoryMatchesDisk ==
  (rpc = "idle" /\ last.op \in Mutating /\ last.status \in {"Ok", "InvalidUrl"})
    => /\ LoadFromFile(file).ok
       /\ LoadFromFile(file).map = doc
       /\ ReopenedAll = FindAll(doc, <<>>)

\* ------------------------------------------------- session key properties
\* C34 as stated: every apply_sync_message call is keyed by the sender id of
\* the Sync message it applies, the key generate_sync_message is called with
\* for that peer.
C34_PeerKeyed ==
  \A i \in Idx :
    /\ events[i].ev = "apply" => events[i].key = events[i].msg.sender_id
    /\ events[i].ev = "gen" => events[i].key \in PeerIds

\* C35 as stated: the timeout ends a session only when the timeout duration
\* has passed since the last inbound frame.
C35_IdleTimeout ==
  exit = "timeout" => clock - last_frame_at >= TimeoutSecs

\* ------------------------------------------------------- send properties
\* the history entry of a Sync frame the session tried to send
IsSyncSend(e) == e.ev = "send" /\ e.msg.type = "sync"

\* the history entry of a diff that generate_sync_message returned
IsDiff(e) == e.ev = "gen" /\ e.ok

\* C36: changes_sent is the number of Sync frames sent with success; each
\* Sync frame sent answers a Peer frame or a Request for this document whose
\* generated diff was not empty, and carries that diff; an empty diff is
\* followed by no send; a send that failed is the last thing the session
\* did, and the session ended with SyncError and no response.
C36_SentCounts ==
  /\ changes_sent = Cardinality({i \in Idx : IsSyncSend(events[i]) /\ events[i].ok})
  /\ \A i \in Idx :
       /\ IsSyncSend(events[i]) =>
            /\ i >= 3
            /\ IsDiff(events[i - 1])
            /\ events[i - 1].msg.data.len > 0
            /\ events[i].msg.data = events[i - 1].msg.data
            /\ \/ IsRecv(events[i - 2], "peer")
               \/ /\ IsRecv(events[i - 2], "request")
                  /\ events[i - 2].msg.document_id = DocumentId
       /\ (IsDiff(events[i]) /\ events[i].msg.data.len = 0) =>
            (i = Len(events) \/ events[i + 1].ev # "send")
       /\ (IsDiff(events[i]) /\ events[i].msg.data.len > 0) =>
            (i < Len(events) /\ IsSyncSend(events[i + 1]))
       /\ (IsSyncSend(events[i]) /\ ~events[i].ok) =>
            /\ i = Len(events)
            /\ pc = "done"
            /\ result = Err("SyncError")
            /\ response = <<>>

\* one diff was sent and counted, another was empty and not sent
C36_Witness ==
  /\ changes_sent = 1
  /\ \E i \in Idx : IsDiff(events[i]) /\ events[i].msg.data.len = 0
  /\ \E i \in Idx : IsSyncSend(events[i]) /\ events[i].ok

\* C37 as stated: no inbound binary frame, of any length, ends the session
\* abnormally: a frame that was read and not decoded is ignored, and the
\* session goes on.
C37_NoCrash ==
  /\ result # Panic
  /\ \A i \in Idx :
       (events[i].ev = "recv" /\ events[i].key = "binary" /\ ~events[i].ok
          /\ i = Len(events)) =>
         (pc = "loop" \/ exit = "timeout")

\* -------------------------------------------------------- key properties
\* C38: every entry of the bookmarks map is filed under its own id field,
\* find_all returns no id twice, create with an id that is present puts the
\* new bookmark in place of the old entry and adds no key, and update leaves
\* the key and the id field as they are.
C38_IdIsKey ==
  /\ [](\A k \in DOMAIN doc : doc[k].id = <<k>>)
  /\ [](LET all == FindAll(doc, <<>>)
        IN \A i, j \in 1..Len(all) : i # j => all[i].id # all[j].id)
  /\ [][\A b \in Bookmarks :
          /\ (rpc = "idle" /\ b.id \in DOMAIN doc /\ CreateOp(b)) =>
               /\ DOMAIN doc' = DOMAIN doc
               /\ doc'[b.id] = BookmarkNode(b)
               /\ \A k \in DOMAIN doc \ {b.id} : doc'[k] = doc[k]
          /\ (rpc = "idle" /\ b.id \in DOMAIN doc /\ UpdateOp(b)) =>
               /\ DOMAIN doc' = DOMAIN doc
               /\ doc'[b.id].id = doc[b.id].id]_vars

\* create is replacing an entry: the file still holds the old bookmark under
\* the id, the document holds the new one under the same id, and no key was
\* added
C38_Witness ==
  /\ rpc = "write"
  /\ call.op = "create"
  /\ file.kind = "snapshot"
  /\ DOMAIN file.map = DOMAIN doc
  /\ Cardinality(DOMAIN doc) = 2
  /\ file.map[call.id] # doc[call.id]

\* -------------------------------------------- terminal interface properties
\* C39: while the interface runs, selected_index is None exactly when the
\* list of bookmarks is empty and is otherwise an index below its length,
\* the selection of list_state equals selected_index, navigate_down on the
\* last item selects index 0 and navigate_up on index 0 selects the last item
C39_SelectionInvariant ==
  tui_pc # "off" =>
    /\ (app.selected_index = <<>>) <=> (app.bookmarks = <<>>)
    /\ app.selected_index # <<>> => app.selected_index[1] \in 0..(Len(app.bookmarks) - 1)
    /\ app.list_state = app.selected_index
    /\ app.selected_index = <<Len(app.bookmarks) - 1>> =>
         /\ NavigateDown(app).selected_index = <<0>>
         /\ NavigateDown(app).list_state = <<0>>
    /\ app.selected_index = <<0>> =>
         /\ NavigateUp(app).selected_index = <<Len(app.bookmarks) - 1>>
         /\ NavigateUp(app).list_state = <<Len(app.bookmarks) - 1>>

\* the second of two bookmarks was deleted from the unfiltered list, and the
\* selection is on the one that is left
C39_Witness ==
  /\ tui_pc = "keys"
  /\ last.op = "delete"
  /\ last.id = "b2"
  /\ last.status = "Ok"
  /\ app.filters = <<>>
  /\ Len(app.bookmarks) = 1
  /\ app.bookmarks[1].id = "b1"
  /\ app.selected_index = <<0>>

\* C40: the Delete mode is entered only from the List mode with a bookmark
\* selected; in the Delete mode only 'y' and 'Y' call repository.delete, with
\* the id of the selected bookmark; Ctrl-C quits and any other key goes back
\* to the list, both without a change to the repository; after 'y' or a
\* cancelling key the mode is List
C40_DeleteConfirmation ==
  /\ [][(app'.mode = "Delete" /\ app.mode # "Delete") =>
          (app.mode = "List" /\ SelectedBookmark(app) # <<>>)]_vars
  /\ [][(tui_pc # "off" /\ rpc = "idle" /\ rpc' = "write" /\ call'.op = "delete") =>
          /\ app.mode = "Delete"
          /\ SelectedBookmark(app) # <<>>
          /\ call'.id = SelectedBookmark(app)[1].id]_vars
  /\ [][\A key \in DeleteKeys :
          (ReadsKey("Delete") /\ DeleteModeKeys(key)) =>
            IF IsChar(key, {"y", "Y"})
            THEN tui_pc' = "delete" \/ app'.mode = "List"
            ELSE /\ UNCHANGED repoVars
                 /\ IF IsCtrlC(key) THEN app'.should_quit ELSE app'.mode = "List"]_vars
  /\ [][(tui_pc = "delete" /\ tui_pc' = "keys") => app'.mode = "List"]_vars

\* 'y' deleted the selected bookmark: the list is shown again without it
C40_Witness ==
  /\ tui_pc = "keys"
  /\ last.op = "delete"
  /\ last.status = "Ok"
  /\ app.mode = "List"
  /\ app.message = <<"Success">>
  /\ last.id \notin DOMAIN doc
  /\ \A i \in 1..Len(app.bookmarks) : app.bookmarks[i].id # last.id

Spec == Init /\ [][Next]_vars

\* Time passes, and select! polls the elapsed timeout future on every
\* iteration of the loop, so an elapsed timeout is eventually taken.
LiveSpec == Spec /\ WF_vars(Tick) /\ WF_vars(Timeout)

\* the session, watched for the time between frames
IdleSpec == Init /\ [][IdleNext]_vars

\* the repository driven by a caller, with storage failures and crashes
RepoSpec == RepoInit /\ [][RepoNext]_vars

\* bookmarks of every kind created and queried
QuerySpec == QueryInit /\ [][QueryNext]_vars

\* two replicas changed on their own and merged in any order
ReplicaSpec == ReplicaInit /\ [][ReplicaNext]_vars

\* bookmarks entering the store through the add command and with_tags
IngestSpec == QueryInit /\ [][IngestNext]_vars

\* the add command with valid and invalid urls and titles
ValidateSpec == QueryInit /\ [][ValidateNext]_vars

\* one run of the program: a command, then auto-sync after add and delete
MainSpec == MainInit /\ [][MainNext]_vars

\* the delete command on stores whose ids share prefixes
DeleteSpec == DeleteInit /\ [][DeleteNext]_vars

\* find_all with every filter, on the stores a file can hold
FilterSpec == FilterInit /\ [][FilterNext]_vars

\* the terminal interface on a stored file
TuiSpec == TuiInit /\ [][TuiNext]_vars

====
